---------------------------- MODULE Spec2Model ----------------------------
(***************************************************************************)
(* A model of the iPerkz support agent core (src/server.js): the upstream  *)
(* data cache, the identity verifier, and the verification session store.  *)
(*                                                                         *)
(* Text is modelled as a sequence of one-character strings, so that the    *)
(* normalisations of the verifier (lower-casing, trimming, stripping) are  *)
(* computed and not assumed.                                               *)
(***************************************************************************)
EXTENDS Integers, Sequences, FiniteSets, TLC

(***************************************************************************)
(* Characters and JavaScript string primitives                             *)
(***************************************************************************)
UpperCase == <<"A","B","C","D","E","F","G","H","I","J","K","L","M",
               "N","O","P","Q","R","S","T","U","V","W","X","Y","Z">>

LowerCase == <<"a","b","c","d","e","f","g","h","i","j","k","l","m",
               "n","o","p","q","r","s","t","u","v","w","x","y","z">>

LowerSet == {LowerCase[i] : i \in 1..26}

DigitSet == {"0","1","2","3","4","5","6","7","8","9"}

\* the characters matched by \s that occur in the model's inputs
SpaceSet == {" ", "\t"}

\* "" in JavaScript
Empty == <<>>

\* a string literal as a sequence of its characters
Chars(str) == [i \in 1..Len(str) |-> SubSeq(str, i, i)]

ToLowerChar(c) ==
    IF \E i \in 1..26 : UpperCase[i] = c
    THEN LowerCase[CHOOSE i \in 1..26 : UpperCase[i] = c]
    ELSE c

ToUpperChar(c) ==
    IF \E i \in 1..26 : LowerCase[i] = c
    THEN UpperCase[CHOOSE i \in 1..26 : LowerCase[i] = c]
    ELSE c

\* String.prototype.toUpperCase
toUpperCase(s) == [i \in 1..Len(s) |-> ToUpperChar(s[i])]

\* String.prototype.toLowerCase
toLowerCase(s) == [i \in 1..Len(s) |-> ToLowerChar(s[i])]

IsSpace(c) == c \in SpaceSet
IsDigit(c) == c \in DigitSet
IsLowerAlnum(c) == c \in LowerSet \cup DigitSet
IsLowerOrSpace(c) == c \in LowerSet \cup SpaceSet

RECURSIVE TrimLeft(_)
TrimLeft(s) == IF s # <<>> /\ IsSpace(Head(s)) THEN TrimLeft(Tail(s)) ELSE s

RECURSIVE TrimRight(_)
TrimRight(s) ==
    IF s # <<>> /\ IsSpace(s[Len(s)]) THEN TrimRight(SubSeq(s, 1, Len(s) - 1)) ELSE s

\* String.prototype.trim
trim(s) == TrimRight(TrimLeft(s))

\* s.replace(/\s+/g, ' '): every maximal run of whitespace becomes one blank
RECURSIVE CollapseSpaces(_)
CollapseSpaces(s) ==
    IF s = <<>> THEN <<>>
    ELSE IF IsSpace(Head(s))
         THEN <<" ">> \o CollapseSpaces(TrimLeft(s))
         ELSE <<Head(s)>> \o CollapseSpaces(Tail(s))

\* String.prototype.includes
includes(hay, needle) ==
    \E i \in 0..(Len(hay) - Len(needle)) : SubSeq(hay, i + 1, i + Len(needle)) = needle

\* String.prototype.startsWith
startsWith(s, p) == Len(p) <= Len(s) /\ SubSeq(s, 1, Len(p)) = p

\* String.prototype.endsWith
endsWith(s, p) == Len(p) <= Len(s) /\ SubSeq(s, Len(s) - Len(p) + 1, Len(s)) = p

\* s.slice(-n): the last n characters (all of s when it is shorter)
sliceLast(s, n) == IF Len(s) <= n THEN s ELSE SubSeq(s, Len(s) - n + 1, Len(s))

\* s.indexOf(c, from), 0-based, -1 when absent
indexOf(s, c, from) ==
    IF \E j \in (from + 1)..Len(s) : s[j] = c
    THEN (CHOOSE j \in (from + 1)..Len(s) :
              s[j] = c /\ \A k \in (from + 1)..(j - 1) : s[k] # c) - 1
    ELSE -1

\* s.split('@')[0]
beforeAt(s) ==
    IF \E j \in 1..Len(s) : s[j] = "@"
    THEN SubSeq(s, 1, indexOf(s, "@", 0))
    ELSE s

Min(a, b) == IF a <= b THEN a ELSE b
Max(a, b) == IF a >= b THEN a ELSE b

(***************************************************************************)
(* Identity verifier                                                       *)
(***************************************************************************)
normalizePhone(phone) ==
    IF phone = Empty THEN Empty ELSE sliceLast(SelectSeq(phone, IsDigit), 10)

normalizeEmail(email) ==
    IF email = Empty THEN Empty ELSE trim(toLowerCase(email))

\* variant: the name is not lower-cased before it is stripped
normalizeName_CaseKept(name) ==
    IF name = Empty THEN Empty
    ELSE CollapseSpaces(SelectSeq(trim(name), IsLowerOrSpace))

normalizeName(name) ==
    IF name = Empty THEN Empty
    ELSE CollapseSpaces(SelectSeq(trim(toLowerCase(name)), IsLowerOrSpace))

\* variant: the look-ahead searches the whole target, not from the cursor on
RECURSIVE FuzzyWalk_SearchAnywhere(_, _, _, _, _)
FuzzyWalk_SearchAnywhere(inp, tgt, i, targetIndex, matchedChars) ==
    IF ~(i < Len(inp) /\ targetIndex < Len(tgt)) THEN matchedChars
    ELSE IF inp[i + 1] = tgt[targetIndex + 1]
         THEN FuzzyWalk_SearchAnywhere(inp, tgt, i + 1, targetIndex + 1, matchedChars + 1)
         ELSE LET foundAt == indexOf(tgt, inp[i + 1], 0)
              IN  IF foundAt # -1
                  THEN FuzzyWalk_SearchAnywhere(inp, tgt, i + 1, foundAt + 1, matchedChars + 1)
                  ELSE FuzzyWalk_SearchAnywhere(inp, tgt, i + 1, targetIndex, matchedChars)

\* the loop of fuzzyMatch: i walks the input, targetIndex the target
RECURSIVE FuzzyWalk(_, _, _, _, _)
FuzzyWalk(inp, tgt, i, targetIndex, matchedChars) ==
    IF ~(i < Len(inp) /\ targetIndex < Len(tgt)) THEN matchedChars
    ELSE IF inp[i + 1] = tgt[targetIndex + 1]
         THEN FuzzyWalk(inp, tgt, i + 1, targetIndex + 1, matchedChars + 1)
         ELSE LET foundAt == indexOf(tgt, inp[i + 1], targetIndex)
              IN  IF foundAt # -1
                  THEN FuzzyWalk(inp, tgt, i + 1, foundAt + 1, matchedChars + 1)
                  ELSE FuzzyWalk(inp, tgt, i + 1, targetIndex, matchedChars)

\* matchedChars / min(len) * 100 >= minMatchPercent, over the integers (the
\* quotients 1/2, 3/5 and 7/10 times 100 are not below 50, 60, 70 in doubles)
fuzzyMatch(input, target, minMatchPercent) ==
    IF input = Empty \/ target = Empty THEN FALSE
    ELSE LET inputLower  == SelectSeq(toLowerCase(input), IsLowerAlnum)
             targetLower == SelectSeq(toLowerCase(target), IsLowerAlnum)
         IN  IF Len(inputLower) < 2 \/ Len(targetLower) < 2 THEN FALSE
             ELSE IF inputLower = targetLower THEN TRUE
             ELSE IF includes(inputLower, targetLower) \/ includes(targetLower, inputLower)
                  THEN TRUE
             ELSE FuzzyWalk(inputLower, targetLower, 0, 0, 0) * 100
                    >= minMatchPercent * Min(Len(inputLower), Len(targetLower))

\* variant: only the whole number is accepted
PhoneMatch_WholeNumber(orderPhone, inputPhone) ==
    /\ orderPhone # Empty /\ inputPhone # Empty /\ Len(inputPhone) >= 4
    /\ orderPhone = inputPhone

\* step 1 of verifyCustomerOwnership
PhoneMatch(orderPhone, inputPhone) ==
    /\ orderPhone # Empty /\ inputPhone # Empty /\ Len(inputPhone) >= 4
    /\ \/ orderPhone = inputPhone
       \/ endsWith(orderPhone, inputPhone)
       \/ includes(orderPhone, inputPhone)
       \/ endsWith(inputPhone, sliceLast(orderPhone, 4))

\* step 2
EmailMatch(orderEmail, inputLower) ==
    /\ orderEmail # Empty /\ Len(inputLower) >= 3
    /\ LET emailUsername == beforeAt(orderEmail)
       IN  \/ orderEmail = inputLower
           \/ emailUsername = inputLower
           \/ includes(orderEmail, inputLower)
           \/ includes(inputLower, emailUsername)
           \/ fuzzyMatch(inputLower, emailUsername, 70)

\* the minimum length of a normalised identifier in the name checks
NameMinLen == 2

\* variant: the name checks without their fuzzy alternative
NameMatch_NoFuzzy(name, inputNormalized) ==
    /\ name # Empty /\ Len(inputNormalized) >= NameMinLen
    /\ \/ name = inputNormalized
       \/ startsWith(name, inputNormalized)
       \/ startsWith(inputNormalized, name)
       \/ includes(name, inputNormalized)
       \/ includes(inputNormalized, name)

\* steps 3 and 4 (the same test, on the first and on the last name)
NameMatch(name, inputNormalized) ==
    /\ name # Empty /\ Len(inputNormalized) >= NameMinLen
    /\ \/ name = inputNormalized
       \/ startsWith(name, inputNormalized)
       \/ startsWith(inputNormalized, name)
       \/ includes(name, inputNormalized)
       \/ includes(inputNormalized, name)
       \/ fuzzyMatch(inputNormalized, name, 60)

\* step 5
FullNameMatch(firstName, lastName, fullName, inputNormalized) ==
    /\ fullName # Empty /\ Len(inputNormalized) >= 3
    /\ \/ fullName = inputNormalized
       \/ includes(fullName, inputNormalized)
       \/ includes(inputNormalized, firstName)
       \/ includes(inputNormalized, lastName)
       \/ fuzzyMatch(inputNormalized, fullName, 50)

\* step 6
FinalFuzzy(firstName, lastName, inputNormalized) ==
    /\ Len(inputNormalized) >= 3
    /\ \/ fuzzyMatch(inputNormalized, firstName, 70)
       \/ fuzzyMatch(inputNormalized, lastName, 70)

\* order: a record with the text fields phone, email, firstName, lastName
\* (a missing field is the empty text); identifier: a text
verifyCustomerOwnership(order, identifier) ==
    IF identifier = Empty THEN FALSE
    ELSE LET input           == trim(identifier)
             inputLower      == toLowerCase(input)
             orderPhone      == normalizePhone(order.phone)
             orderEmail      == normalizeEmail(order.email)
             firstName       == normalizeName(order.firstName)
             lastName        == normalizeName(order.lastName)
             fullName        == trim(firstName \o <<" ">> \o lastName)
             inputPhone      == normalizePhone(input)
             inputNormalized == normalizeName(input)
         IN  \/ PhoneMatch(orderPhone, inputPhone)
             \/ EmailMatch(orderEmail, inputLower)
             \/ NameMatch(firstName, inputNormalized)
             \/ NameMatch(lastName, inputNormalized)
             \/ FullNameMatch(firstName, lastName, fullName, inputNormalized)
             \/ FinalFuzzy(firstName, lastName, inputNormalized)

(***************************************************************************)
(* Chat messages: intent detection and extraction of order id and proof.   *)
(* Messages are texts over letters, digits, blank, tab, comma, '@', '.'    *)
(* and '-' (no '#', ':' or line break).                                    *)
(***************************************************************************)
\* \w, and the separators [\s,]
WordSet == LowerSet \cup {UpperCase[i] : i \in 1..26} \cup DigitSet \cup {"_"}
SepSet == SpaceSet \cup {","}

IsWordChar(c) == c \in WordSet
IsSep(c) == c \in SepSet
AllDigits(s) == \A i \in 1..Len(s) : IsDigit(s[i])

\* keywords.some(k => msg.includes(k))
IncludesAny(msg, words) == \E w \in words : includes(msg, Chars(w))

\* the number of leading characters of s that belong to class
LeadLen(s, class) ==
    Cardinality({n \in 1..Len(s) : \A i \in 1..n : s[i] \in class})

DropFirst(s, n) == SubSeq(s, n + 1, Len(s))

\* /^(\d{5,6})[\s,]+(.+)$/ at the start of m, or the same shape further in:
\* 5 or 6 digits that end at position d + len, one separator at least and
\* one more character at least
DigitsThenProof(m, d, len) ==
    /\ d + len + 2 <= Len(m)
    /\ AllDigits(SubSeq(m, d + 1, d + len))
    /\ IsSep(m[d + len + 1])

\* the length \d{5,6} takes at offset d (6 is tried first), 0 when neither fits
OrderIdLen(m, d) ==
    IF DigitsThenProof(m, d, 6) THEN 6
    ELSE IF DigitsThenProof(m, d, 5) THEN 5 ELSE 0

\* group 2 of pattern 1: [\s,]+ is greedy and gives back its last character
\* when nothing else is left for (.+)
ProofAfter(m, from) ==
    LET rest == DropFirst(m, from)
        n    == LeadLen(rest, SepSet)
    IN  IF n < Len(rest) THEN DropFirst(rest, n) ELSE <<rest[Len(rest)]>>

ProofKeywords == {"name", "phone", "email", "verify"}

\* group 2 of pattern 2: [\s,]+(?:name|phone|email|verify)?[\s:]*(.+)
ProofAfterKeyword(m, from) ==
    LET rest  == DropFirst(m, from)
        n     == LeadLen(rest, SepSet)
        body  == DropFirst(rest, n)
        lower == toLowerCase(body)
        kw    == IF \E w \in ProofKeywords : startsWith(lower, Chars(w))
                 THEN Len(Chars(CHOOSE w \in ProofKeywords : startsWith(lower, Chars(w))))
                 ELSE 0
        after == DropFirst(body, kw)
        sp    == LeadLen(after, SpaceSet)
    IN  IF n = Len(rest) THEN <<rest[Len(rest)]>>
        ELSE IF kw = 0 THEN body
        ELSE IF sp < Len(after) THEN DropFirst(after, sp)
        ELSE IF sp > 0 THEN <<after[Len(after)]>>
        ELSE body

\* the offsets at which pattern 2 finds its digits (it has no \b before them)
KeywordPatternAt(m) == {d \in 0..Len(m) : OrderIdLen(m, d) > 0}

\* /\b(\d{5,6})\b/: a whole word of 5 or 6 digits starting at offset d
WholeNumberAt(m, d, len) ==
    /\ d + len <= Len(m)
    /\ AllDigits(SubSeq(m, d + 1, d + len))
    /\ (d = 0 \/ ~IsWordChar(m[d]))
    /\ (d + len = Len(m) \/ ~IsWordChar(m[d + len + 1]))

WholeNumbers(m) == {d \in 0..Len(m) : WholeNumberAt(m, d, 5) \/ WholeNumberAt(m, d, 6)}

Least(S) == CHOOSE x \in S : \A y \in S : x <= y

\* String.prototype.replace(text, ''): the first occurrence of w is removed
RemoveFirst(m, w) ==
    LET at == Least({i \in 0..(Len(m) - Len(w)) : SubSeq(m, i + 1, i + Len(w)) = w})
    IN  SubSeq(m, 1, at) \o DropFirst(m, at + Len(w))

\* s.replace(/[,\s]+/g, ' ')
RECURSIVE CollapseSeps(_)
CollapseSeps(m) ==
    IF m = <<>> THEN <<>>
    ELSE IF IsSep(Head(m))
         THEN <<" ">> \o CollapseSeps(DropFirst(m, LeadLen(m, SepSet)))
         ELSE <<Head(m)>> \o CollapseSeps(Tail(m))

NoiseWords == {"order", "track", "status", "id", "my", "is", "where", "no"}

\* s.replace(/\b(order|track|status|id|my|is|where|#|no)\b/gi, ''): every
\* whole word of the list is removed, the characters around it stay
RECURSIVE DropNoiseWords(_)
DropNoiseWords(m) ==
    IF m = <<>> THEN <<>>
    ELSE LET w == LeadLen(m, WordSet)
         IN  IF w = 0 THEN <<Head(m)>> \o DropNoiseWords(Tail(m))
             ELSE IF \E k \in NoiseWords : Chars(k) = toLowerCase(SubSeq(m, 1, w))
                  THEN DropNoiseWords(DropFirst(m, w))
                  ELSE SubSeq(m, 1, w) \o DropNoiseWords(DropFirst(m, w))

\* null (no order id, no proof) is the empty text
extractOrderAndVerification(message) ==
    LET msg == trim(message)
    IN  IF Len(msg) \in {5, 6} /\ AllDigits(msg)
        THEN [orderId |-> msg, verificationInfo |-> Empty]
        ELSE IF OrderIdLen(msg, 0) > 0
        THEN [orderId |-> SubSeq(msg, 1, OrderIdLen(msg, 0)),
              verificationInfo |-> trim(ProofAfter(msg, OrderIdLen(msg, 0)))]
        ELSE IF KeywordPatternAt(msg) # {}
        THEN LET d == Least(KeywordPatternAt(msg))
                 e == d + OrderIdLen(msg, d)
             IN  [orderId |-> SubSeq(msg, d + 1, e),
                  verificationInfo |-> trim(ProofAfterKeyword(msg, e))]
        ELSE IF WholeNumbers(msg) # {}
        THEN LET d == Least(WholeNumbers(msg))
                 id == SubSeq(msg, d + 1, d + (IF WholeNumberAt(msg, d, 6) THEN 6 ELSE 5))
                 remaining == trim(CollapseSeps(RemoveFirst(msg, id)))
                 cleaned == trim(DropNoiseWords(remaining))
             IN  [orderId |-> id,
                  verificationInfo |-> IF Len(cleaned) >= 2 THEN cleaned ELSE Empty]
        ELSE [orderId |-> Empty, verificationInfo |-> Empty]

isGreeting(msg) ==
    \E g \in {"hi", "hello", "hey", "namaste", "namaskar", "good morning",
              "good afternoon", "good evening"} : startsWith(msg, Chars(g))

isFarewell(msg) ==
    IncludesAny(msg, {"bye", "goodbye", "thanks bye", "see you", "take care"})

isThanks(msg) == IncludesAny(msg, {"thank", "thanks", "dhanyavad", "appreciate"})

isOrderQuery(msg) ==
    LET m == trim(msg)
    IN  \/ Len(m) \in {5, 6} /\ AllDigits(m)
        \/ \E len \in {5, 6} :
             /\ len < Len(m)
             /\ AllDigits(SubSeq(m, 1, len))
             /\ \E k \in (len + 2)..Len(m) :
                  /\ \A j \in (len + 1)..(k - 1) : IsSep(m[j])
                  /\ ~IsSpace(m[k])
        \/ IncludesAny(msg, {"order", "track", "status", "where is my", "my order",
                             "tracking"})

isPaymentQuery(msg) ==
    IncludesAny(msg, {"payment", "paid", "charge", "total", "amount", "bill",
                      "receipt", "invoice", "price", "cost", "how much"})

(***************************************************************************)
(* Program constants, upstream data, bounds                                *)
(***************************************************************************)
CACHE_DURATION == 30000
TODAYS_CACHE_DURATION == 10000
SESSION_EXPIRY == 86400000

\* bounds of the model
MaxInflight == 2
MaxReads == 3
MaxShortTicks == 3
MaxLongTicks == 2
MaxRequests == 2

OrderA == [customerOrderId |-> 10001, orderStatus |-> "OUT_FOR_DELIVERY",
           phone |-> <<"7","3","2","-","5","5","5","-","1","2","3","4">>,
           email |-> <<"B","o","b","@","x",".","i","o">>,
           firstName |-> <<"B","o","b">>, lastName |-> <<"L","e","e">>,
           deliveryAssociate |-> <<"g","i","g","a","-","n","o","r","t","h">>]

OrderB == [customerOrderId |-> 20002, orderStatus |-> "PLACED",
           phone |-> <<"9","0","8","4","4","4","6","7","8","9">>,
           email |-> <<"a","m","y","@","y",".","i","o">>,
           firstName |-> <<"A","m","y">>, lastName |-> <<"R","o","y">>,
           deliveryAssociate |-> <<"\"","\"">>]

\* the result of Array.prototype.find when nothing matches
NoOrder == [customerOrderId |-> -1, orderStatus |-> "", phone |-> Empty,
            email |-> Empty, firstName |-> Empty, lastName |-> Empty,
            deliveryAssociate |-> Empty]

\* null: no snapshot cached (let ordersCache = null)
NoCache == 0

\* the payloads the upstream services may answer with (data.items); the
\* second one has dropped order 20002 and delivered order 10001
PayloadIds == {1, 2}

\* a fresh empty list, as a returned value
EmptyList == Cardinality(PayloadIds) + 1

Items(p) ==
    IF p = 1 THEN <<OrderA, OrderB>>
    ELSE IF p = 2 THEN <<[OrderA EXCEPT !.orderStatus = "DELIVERED"]>>
    ELSE <<>>

Collections == {"orders", "todays"}

\* the ways `await fetch(...)`, `await response.json()` and the test
\* `data && data.items` fail
FetchFailures == {"network_error", "no_items"}

\* Date.now() when the model starts: later than any TTL after time 0
NowStart == 4 * CACHE_DURATION

\* the session keys callers use; callers of the legacy routes that send
\* none share 'default-session'
DefaultSession == "default-session"
SessionIds == {DefaultSession, "tok-1"}
NoSid == ""

\* order ids as callers write them (req.params.orderId, or the 5-6 digits
\* extractOrderAndVerification finds in a message)
Key1 == <<"1","0","0","0","1">>
Key2 == <<"2","0","0","0","2">>
Key9 == <<"9","9","9","9","9">>
OrderKeys == {Key1, Key2, Key9}

\* what callers offer as proof, and the absent proof
Idents == {Chars("bob"), Chars("6789"), Chars("zzz"), Empty}

\* what callers write to the chat
Messages == {Chars(""), Chars("10001"), Chars("10001 bob"), Chars("20002 zzz"),
             Chars("bob"), Chars("amy"), Chars("zzz"), Chars("bill 10001"), Chars("bill")}

(***************************************************************************)
(* Looking an order up                                                     *)
(***************************************************************************)
DigitValue(c) == CHOOSE n \in 0..9 : Chars("0123456789")[n + 1] = c

RECURSIVE DecimalValue(_)
DecimalValue(digits) ==
    IF digits = <<>> THEN 0
    ELSE 10 * DecimalValue(SubSeq(digits, 1, Len(digits) - 1))
         + DigitValue(digits[Len(digits)])

\* NaN, which equals no customerOrderId
NaN == -1

\* parseInt of an unsigned text: its leading digits, NaN when it has none
parseInt(text) ==
    LET t == TrimLeft(text)
        n == LeadLen(t, DigitSet)
    IN  IF n = 0 THEN NaN ELSE DecimalValue(SubSeq(t, 1, n))

\* orders.find(o => o.customerOrderId === parseInt(orderId))
findOrderById(orders, orderId) ==
    LET hits == {i \in 1..Len(orders) : orders[i].customerOrderId = parseInt(orderId)}
    IN  IF hits = {} THEN NoOrder ELSE orders[Least(hits)]

IsQuote(c) == c = "\""
NotQuote(c) == ~IsQuote(c)

\* formatDriverName(deliveryAssociate).route, the empty text when it is null
RouteOf(deliveryAssociate) ==
    IF trim(deliveryAssociate) \in {Empty, Chars("\"\"")} THEN Empty
    ELSE trim(SelectSeq(deliveryAssociate, NotQuote))

VARIABLES
    now,                   \* Date.now()
    upstream,              \* the payload the upstream services hold
    ordersCache,           \* let ordersCache
    lastFetchTime,         \* let lastFetchTime
    todaysOrdersCache,     \* let todaysOrdersCache
    todaysOrdersFetchTime, \* let todaysOrdersFetchTime
    inflight,              \* calls suspended at `await fetch(...)`
    customerSessions,      \* const customerSessions = new Map()
    pendingVerifications,  \* const pendingVerifications = new Map()
    issued,                \* the tokens POST /api/v1/session has handed out
    last,                  \* the response to the last finished request
    reads,                 \* history: the completed reads of the caches
    lastFailAt,            \* history: when the last failed refresh ended
    lastOkAt,              \* history: `now` of the last call that stored a snapshot
    proved,                \* history: <<session, order id>> that passed the verifier
    probe                  \* the verifier applied to an order and an identifier

cacheVars == <<ordersCache, lastFetchTime, todaysOrdersCache, todaysOrdersFetchTime>>
sessVars == <<customerSessions, pendingVerifications, issued, proved>>
histVars == <<reads, lastFailAt, lastOkAt>>
vars == <<now, upstream, cacheVars, inflight, sessVars, last, histVars, probe>>

(***************************************************************************)
(* The cache: fetchOrders and fetchTodaysOrders                            *)
(***************************************************************************)
CacheOf(c) == IF c = "orders" THEN ordersCache ELSE todaysOrdersCache
StampOf(c) == IF c = "orders" THEN lastFetchTime ELSE todaysOrdersFetchTime
TTL(c) == IF c = "orders" THEN CACHE_DURATION ELSE TODAYS_CACHE_DURATION

\* variant: a snapshot whose age equals the TTL still counts as fresh
CacheFresh_Inclusive(c, t) == CacheOf(c) # NoCache /\ (t - StampOf(c)) <= TTL(c)

\* the test that opens fetchOrders and fetchTodaysOrders
\* variant: the age test reversed
CacheFresh_Reversed(c, t) == CacheOf(c) # NoCache /\ (t - StampOf(c)) >= TTL(c)

CacheFresh(c, t) == CacheOf(c) # NoCache /\ (t - StampOf(c)) < TTL(c)

\* variant: the timestamp is not written with the snapshot
StoreSnapshot_SnapshotOnly(c, p, t0) ==
    IF c = "orders"
    THEN /\ ordersCache' = p
         /\ UNCHANGED <<lastFetchTime, todaysOrdersCache, todaysOrdersFetchTime>>
    ELSE /\ todaysOrdersCache' = p
         /\ UNCHANGED <<todaysOrdersFetchTime, ordersCache, lastFetchTime>>

\* ordersCache = data.items; lastFetchTime = now  (now: read at the call's start)
StoreSnapshot(c, p, t0) ==
    IF c = "orders"
    THEN /\ ordersCache' = p
         /\ lastFetchTime' = t0
         /\ UNCHANGED <<todaysOrdersCache, todaysOrdersFetchTime>>
    ELSE /\ todaysOrdersCache' = p
         /\ todaysOrdersFetchTime' = t0
         /\ UNCHANGED <<ordersCache, lastFetchTime>>

\* return ordersCache || []
StaleOrEmpty(c) == IF CacheOf(c) # NoCache THEN CacheOf(c) ELSE EmptyList

FreeIds == (1..MaxInflight) \ {r.id : r \in inflight}
NextId == CHOOSE i \in FreeIds : \A j \in FreeIds : i <= j

\* a call of fetchOrders (c = "orders") or fetchTodaysOrders made by `op` on
\* behalf of session s, order id o, identifier info; t0 is its `const now`
Call(op, c, s, o, info) ==
    [id |-> NextId, op |-> op, c |-> c, t0 |-> now, stage |-> "waiting",
     data |-> NoCache, seen |-> CacheOf(c), seenAt |-> StampOf(c),
     s |-> s, o |-> o, info |-> info,
     pc |-> "", key |-> Empty, code |-> "", todo |-> <<>>]

Logged(r, kind, snap) ==
    [c |-> r.c, t |-> r.t0, kind |-> kind, seen |-> r.seen, seenAt |-> r.seenAt,
     snap |-> snap]

ReadBudget == Cardinality(reads) + Cardinality(inflight) < MaxReads

NoPending == [has |-> FALSE, orderId |-> Empty, order |-> NoOrder]
NoSession == [kind |-> "absent", verifiedOrders |-> <<>>, expiresAt |-> 0]
NoReply == [n |-> 0, op |-> "", s |-> "", o |-> Empty, code |-> ""]
NoProbe == [order |-> NoOrder, identifier |-> Empty, result |-> "none"]

InitSystem ==
    /\ now = NowStart
    /\ upstream = 1
    /\ ordersCache = NoCache
    /\ lastFetchTime = 0
    /\ todaysOrdersCache = NoCache
    /\ todaysOrdersFetchTime = 0
    /\ inflight = {}
    /\ customerSessions = [s \in SessionIds |-> NoSession]
    /\ pendingVerifications = [s \in SessionIds |-> NoPending]
    /\ issued = {}
    /\ last = NoReply
    /\ reads = {}
    /\ lastFailAt = [c \in Collections |-> -1]
    /\ lastOkAt = [c \in Collections |-> -1]
    /\ proved = {}

Init == InitSystem /\ probe = NoProbe

(***************************************************************************)
(* Environment                                                             *)
(***************************************************************************)
ShortTicks == ((now - NowStart) % SESSION_EXPIRY) \div TODAYS_CACHE_DURATION
LongTicks == (now - NowStart) \div SESSION_EXPIRY

\* time passes by one short cache period
Tick ==
    /\ ShortTicks < MaxShortTicks
    /\ now' = now + TODAYS_CACHE_DURATION
    /\ UNCHANGED <<upstream, cacheVars, inflight, sessVars, last, histVars, probe>>

\* time passes by one session lifetime
TickDay ==
    /\ LongTicks < MaxLongTicks
    /\ now' = now + SESSION_EXPIRY
    /\ UNCHANGED <<upstream, cacheVars, inflight, sessVars, last, histVars, probe>>

UpstreamChange ==
    /\ \E p \in PayloadIds \ {upstream} : upstream' = p
    /\ UNCHANGED <<now, cacheVars, inflight, sessVars, last, histVars, probe>>

\* the upstream service answers a pending call, well or badly
UpstreamRespond ==
    \E r \in inflight :
        /\ r.op = "read"
        /\ r.stage = "waiting"
        /\ \/ inflight' = (inflight \ {r}) \cup {[r EXCEPT !.stage = "ok", !.data = upstream]}
           \/ \E f \in FetchFailures :
                inflight' = (inflight \ {r}) \cup {[r EXCEPT !.stage = f]}
        /\ UNCHANGED <<now, upstream, cacheVars, sessVars, last, histVars, probe>>

(***************************************************************************)
(* fetchOrders / fetchTodaysOrders called on their own                     *)
(***************************************************************************)
\* the cache is fresh: the cached snapshot is returned at once
ReadHit(c) ==
    /\ ReadBudget
    /\ CacheFresh(c, now)
    /\ reads' = reads \cup {Logged(Call("read", c, NoSid, Empty, Empty), "hit", CacheOf(c))}
    /\ UNCHANGED <<now, upstream, cacheVars, inflight, sessVars, last,
                   lastFailAt, lastOkAt, probe>>

\* otherwise the call is suspended at `await fetch(...)`
ReadMiss(c) ==
    /\ ReadBudget
    /\ FreeIds # {}
    /\ ~CacheFresh(c, now)
    /\ inflight' = inflight \cup {Call("read", c, NoSid, Empty, Empty)}
    /\ UNCHANGED <<now, upstream, cacheVars, sessVars, last, histVars, probe>>

\* the answer has items: the snapshot and its timestamp are replaced
ReadResumeOk(r) ==
    /\ r.op = "read" /\ r.stage = "ok"
    /\ StoreSnapshot(r.c, r.data, r.t0)
    /\ inflight' = inflight \ {r}
    /\ reads' = reads \cup {Logged(r, "ok", r.data)}
    /\ lastOkAt' = [lastOkAt EXCEPT ![r.c] = r.t0]
    /\ UNCHANGED <<now, upstream, sessVars, last, lastFailAt, probe>>

\* variant: a failed fetch drops the stored snapshot and returns an empty list
ReadResumeFail_Drop(r) ==
    /\ r.op = "read" /\ r.stage \in FetchFailures
    /\ StoreSnapshot(r.c, NoCache, 0)
    /\ inflight' = inflight \ {r}
    /\ reads' = reads \cup {Logged(r, "fail", EmptyList)}
    /\ lastFailAt' = [lastFailAt EXCEPT ![r.c] = now]
    /\ UNCHANGED <<now, upstream, sessVars, last, lastOkAt, probe>>

\* variant: a failed fetch restarts the TTL of the stored snapshot
ReadResumeFail_Backoff(r) ==
    /\ r.op = "read" /\ r.stage \in FetchFailures
    /\ StoreSnapshot(r.c, CacheOf(r.c), now)
    /\ inflight' = inflight \ {r}
    /\ reads' = reads \cup {Logged(r, "fail", StaleOrEmpty(r.c))}
    /\ lastFailAt' = [lastFailAt EXCEPT ![r.c] = now]
    /\ UNCHANGED <<now, upstream, sessVars, last, lastOkAt, probe>>

\* the call threw or the answer has no items: the catch block, then
\* `return ordersCache || []`
ReadResumeFail(r) ==
    /\ r.op = "read" /\ r.stage \in FetchFailures
    /\ inflight' = inflight \ {r}
    /\ reads' = reads \cup {Logged(r, "fail", StaleOrEmpty(r.c))}
    /\ lastFailAt' = [lastFailAt EXCEPT ![r.c] = now]
    /\ UNCHANGED <<now, upstream, cacheVars, sessVars, last, lastOkAt, probe>>

fetchOrders ==
    \/ ReadHit("orders")
    \/ ReadMiss("orders")

fetchTodaysOrders ==
    \/ ReadHit("todays")
    \/ ReadMiss("todays")

FetchResume ==
    \E r \in inflight : ReadResumeOk(r) \/ ReadResumeFail(r)

NextCache ==
    \/ Tick
    \/ UpstreamChange
    \/ UpstreamRespond
    \/ fetchOrders
    \/ fetchTodaysOrders
    \/ FetchResume

SpecCache == Init /\ [][NextCache]_vars

\* the continuation of an answered call is scheduled by the event loop; that
\* the upstream answers at all is not up to the program
SpecCacheLive == SpecCache /\ WF_vars(FetchResume)

(***************************************************************************)
(* The session store: verified orders, pending prompts, the gates          *)
(***************************************************************************)
\* Set.prototype.has and Set.prototype.add on a set kept in insertion order
Has(set, k) == \E i \in 1..Len(set) : set[i] = k
SetAdd(set, k) == IF Has(set, k) THEN set ELSE Append(set, k)

\* { verifiedOrders: new Set() } with or without expiresAt (0: undefined)
NewObject(expiresAt) ==
    [kind |-> "object", verifiedOrders |-> <<>>, expiresAt |-> expiresAt]

Pending(orderId, order) == [has |-> TRUE, orderId |-> orderId, order |-> order]

\* the maps as a request finds them
Store == [cs |-> customerSessions, pv |-> pendingVerifications, pr |-> proved]

\* GET /api/track, /api/driver-location, /api/packing-status:
\* !verifiedOrders || !verifiedOrders.has(orderId); an object has no has()
LegacyGate(cs, s, o) ==
    IF cs[s].kind = "absent" THEN "UNVERIFIED"
    ELSE IF cs[s].kind = "object" THEN "FAULT"
    ELSE IF Has(cs[s].verifiedOrders, o) THEN "VERIFIED" ELSE "UNVERIFIED"

\* handleOrderQuery: (customerSessions.get(sessionId) || new Set()).has(orderId)
ChatOrderGate(cs, s, o) ==
    IF cs[s].kind = "absent" THEN "UNVERIFIED"
    ELSE IF cs[s].kind = "object" THEN "FAULT"
    ELSE IF Has(cs[s].verifiedOrders, o) THEN "VERIFIED" ELSE "UNVERIFIED"

\* handlePaymentQuery: orderId && verifiedOrders && verifiedOrders.has(orderId)
PaymentGate(cs, s, o) ==
    IF o # Empty /\ cs[s].kind = "object" THEN "FAULT"
    ELSE IF cs[s].kind = "set" /\ Has(cs[s].verifiedOrders, o) THEN "VERIFIED"
    ELSE "UNVERIFIED"

\* GET /api/v1/orders/:id/track: session?.verifiedOrders || session
MobileTrackGate(cs, s, o) ==
    IF cs[s].kind = "absent" THEN "UNVERIFIED"
    ELSE IF Has(cs[s].verifiedOrders, o) THEN "VERIFIED" ELSE "UNVERIFIED"

\* GET /api/v1/orders/:id/driver-location
MobileDriverGate(cs, s, o) ==
    IF cs[s].kind = "absent" THEN "UNVERIFIED"
    ELSE IF Has(cs[s].verifiedOrders, o) THEN "VERIFIED" ELSE "UNVERIFIED"

(***************************************************************************)
(* Request handlers.  A handler runs until it has to wait for a cache read *)
(* or for the driver feed; a plan says where it stands: "done" with the    *)
(* response code and the calls still to be awaited before answering, or    *)
(* waiting at pc for the orders of collection c to look order o up.        *)
(***************************************************************************)
Done(st, code, todo) ==
    [cs |-> st.cs, pv |-> st.pv, pr |-> st.pr, pc |-> "done", c |-> "",
     o |-> Empty, code |-> code, todo |-> todo]

Await(st, pc, c, o) ==
    [cs |-> st.cs, pv |-> st.pv, pr |-> st.pr, pc |-> pc, c |-> c,
     o |-> o, code |-> "", todo |-> <<>>]

HasRoute(order) == RouteOf(order.deliveryAssociate) # Empty

\* getDeliveryEstimate reads the orders again (getRouteProgress) for an
\* order that is packed or on its way and has a route
EstimateReads(order) ==
    IF order.orderStatus \notin {"DELIVERED", "CANCELLED", "PLACED", "STARTED"}
       /\ HasRoute(order)
    THEN <<"orders">> ELSE <<>>

\* if (driverInfo && driverInfo.route) routeProgress = await getRouteProgress(..)
RouteReads(order) == IF HasRoute(order) THEN <<"orders">> ELSE <<>>

\* handleOrderQuery up to `await findOrderById(orderId)`
handleOrderQuery(st, s, message) ==
    LET orderId == extractOrderAndVerification(message).orderId
    IN  IF orderId = Empty THEN Done(st, "ASK_ORDER_ID", <<>>)
        ELSE Await(st, "order", "orders", orderId)

\* handleOrderQuery once the order has been looked up
OrderQueryFound(st, s, orderId, message, order) ==
    LET verificationInfo == extractOrderAndVerification(message).verificationInfo
        sess == st.cs[s]
    IN  IF order = NoOrder THEN Done(st, "ORDER_NOT_FOUND", <<>>)
        ELSE IF ChatOrderGate(st.cs, s, orderId) = "FAULT" THEN Done(st, "FAULT", <<>>)
        ELSE IF ChatOrderGate(st.cs, s, orderId) = "VERIFIED"
        THEN Done(st, "ORDER_SHOWN", EstimateReads(order))
        ELSE IF verificationInfo # Empty
        THEN IF verifyCustomerOwnership(order, verificationInfo)
             THEN Done([st EXCEPT
                           !.cs[s] = [kind |-> "set",
                                      verifiedOrders |-> SetAdd(sess.verifiedOrders, orderId),
                                      expiresAt |-> sess.expiresAt],
                           !.pr = @ \cup {<<s, orderId>>}],
                       "VERIFIED", EstimateReads(order))
             ELSE Done([st EXCEPT !.pv[s] = Pending(orderId, order)],
                       "VERIFICATION_FAILED", <<>>)
        ELSE Done([st EXCEPT !.pv[s] = Pending(orderId, order)],
                  "VERIFICATION_REQUIRED", <<>>)

\* handleVerification: the message is the proof for the pending order
handleVerification(st, s, message) ==
    LET pending == st.pv[s]
        identifier == trim(message)
        sess == st.cs[s]
    IN  IF verifyCustomerOwnership(pending.order, identifier)
        THEN IF sess.kind = "object"
             THEN Done([st EXCEPT !.pv[s] = NoPending,
                                  !.pr = @ \cup {<<s, pending.orderId>>}],
                       "FAULT", <<>>)
             ELSE Done([st EXCEPT
                           !.pv[s] = NoPending,
                           !.cs[s] = [kind |-> "set",
                                      verifiedOrders |-> SetAdd(sess.verifiedOrders,
                                                                pending.orderId),
                                      expiresAt |-> sess.expiresAt],
                           !.pr = @ \cup {<<s, pending.orderId>>}],
                       "VERIFIED", EstimateReads(pending.order))
        ELSE Done(st, "VERIFICATION_FAILED", <<>>)

\* handlePaymentQuery from its second `if`: the order verified last
PaymentFallback(st, s) ==
    LET set == st.cs[s].verifiedOrders
    IN  IF st.cs[s].kind = "set" /\ Len(set) > 0
        THEN Await(st, "pay2", "orders", set[Len(set)])
        ELSE Done(st, "VERIFICATION_REQUIRED", <<>>)

handlePaymentQuery(st, s, message) ==
    LET orderId == extractOrderAndVerification(message).orderId
    IN  IF PaymentGate(st.cs, s, orderId) = "FAULT" THEN Done(st, "FAULT", <<>>)
        ELSE IF PaymentGate(st.cs, s, orderId) = "VERIFIED"
        THEN Await(st, "pay1", "orders", orderId)
        ELSE PaymentFallback(st, s)

processMessage(st, s, message) ==
    LET msg == trim(toLowerCase(message))
    IN  IF trim(message) = Empty THEN Done(st, "GREETING", <<>>)
        ELSE IF st.pv[s].has THEN handleVerification(st, s, message)
        ELSE IF isGreeting(msg) \/ isFarewell(msg) \/ isThanks(msg)
        THEN Done(st, "INFO", <<>>)
        ELSE IF isPaymentQuery(msg) THEN handlePaymentQuery(st, s, message)
        ELSE IF isOrderQuery(msg) THEN handleOrderQuery(st, s, message)
        ELSE Done(st, "INFO", <<>>)

\* POST /api/v1/chat: the session check, then processMessage
MobileChatPlan(st, s, message) ==
    IF s = NoSid THEN Done(st, "UNAUTHORIZED", <<>>)
    ELSE IF st.cs[s].kind = "absent"
    THEN processMessage([st EXCEPT !.cs[s] = NewObject(0)], s, message)
    ELSE IF st.cs[s].expiresAt # 0 /\ now > st.cs[s].expiresAt
    THEN Done([st EXCEPT !.cs[s] = NoSession], "SESSION_EXPIRED", <<>>)
    ELSE processMessage(st, s, message)

\* a gated route: the gate's verdict, then the first lookup
Gated(st, verdict, pc, c, o) ==
    IF verdict = "FAULT" THEN Done(st, "FAULT", <<>>)
    ELSE IF verdict = "UNVERIFIED" THEN Done(st, "VERIFICATION_REQUIRED", <<>>)
    ELSE Await(st, pc, c, o)

\* GET /api/track/:orderId after findOrderById
TrackFound(st, order) ==
    IF order = NoOrder THEN Done(st, "ORDER_NOT_FOUND", <<>>)
    ELSE Done(st, "OK", EstimateReads(order) \o RouteReads(order))

\* GET /api/v1/orders/:orderId/track after findOrderById
MobileTrackFound(st, order) ==
    IF order = NoOrder THEN Done(st, "ORDER_NOT_FOUND", <<>>)
    ELSE Done(st, "OK",
              EstimateReads(order) \o RouteReads(order)
              \o (IF HasRoute(order) /\ order.orderStatus = "OUT_FOR_DELIVERY"
                  THEN <<"drivers">> ELSE <<>>))

\* both driver-location routes after findOrderById
DriverLocationFound(st, order) ==
    IF order = NoOrder THEN Done(st, "ORDER_NOT_FOUND", <<>>)
    ELSE IF order.orderStatus # "OUT_FOR_DELIVERY" THEN Done(st, "NOT_OUT_FOR_DELIVERY", <<>>)
    ELSE IF ~HasRoute(order) THEN Done(st, "NO_DRIVER", <<>>)
    ELSE Done(st, "OK", <<"drivers", "orders">>)

\* variant: the order is marked verified whatever the verifier says
MobileVerifyFound_Unchecked(st, s, orderId, identifier, order) ==
    IF order = NoOrder THEN Done(st, "ORDER_NOT_FOUND", <<>>)
    ELSE Done([st EXCEPT
                  !.cs[s] = [kind |-> IF @.kind = "absent" THEN "object" ELSE @.kind,
                             verifiedOrders |-> SetAdd(@.verifiedOrders, orderId),
                             expiresAt |-> @.expiresAt],
                  !.pr = IF verifyCustomerOwnership(order, identifier)
                         THEN @ \cup {<<s, orderId>>} ELSE @],
              "VERIFIED", <<>>)

\* variant: a successful verification starts the verified set afresh
MobileVerifyFound_Afresh(st, s, orderId, identifier, order) ==
    IF order = NoOrder THEN Done(st, "ORDER_NOT_FOUND", <<>>)
    ELSE IF verifyCustomerOwnership(order, identifier)
    THEN Done([st EXCEPT
                  !.cs[s] = [kind |-> "set", verifiedOrders |-> <<orderId>>,
                             expiresAt |-> 0],
                  !.pr = @ \cup {<<s, orderId>>}],
              "VERIFIED", <<>>)
    ELSE Done(st, "VERIFICATION_FAILED", <<>>)

\* POST /api/v1/orders/:orderId/verify after findOrderById
MobileVerifyFound(st, s, orderId, identifier, order) ==
    LET sess == st.cs[s]
    IN  IF order = NoOrder THEN Done(st, "ORDER_NOT_FOUND", <<>>)
        ELSE IF verifyCustomerOwnership(order, identifier)
        THEN Done([st EXCEPT
                      !.cs[s] = [kind |-> IF sess.kind = "absent" THEN "object" ELSE sess.kind,
                                 verifiedOrders |-> SetAdd(sess.verifiedOrders, orderId),
                                 expiresAt |-> sess.expiresAt],
                      !.pr = @ \cup {<<s, orderId>>}],
                  "VERIFIED", <<>>)
        ELSE Done(st, "VERIFICATION_FAILED", <<>>)

\* the handler of request req goes on from pc with the orders just read
Step(req, pc, key, orders, st) ==
    LET order == findOrderById(orders, key)
    IN  CASE pc = "order"   -> OrderQueryFound(st, req.s, key, req.info, order)
          [] pc = "pay1"    -> IF order # NoOrder THEN Done(st, "PAYMENT_SHOWN", <<>>)
                               ELSE PaymentFallback(st, req.s)
          [] pc = "pay2"    -> IF order # NoOrder THEN Done(st, "PAYMENT_SHOWN", <<>>)
                               ELSE Done(st, "VERIFICATION_REQUIRED", <<>>)
          [] pc = "track"   -> TrackFound(st, order)
          [] pc = "mtrack"  -> MobileTrackFound(st, order)
          [] pc = "driver"  -> DriverLocationFound(st, order)
          [] pc = "verify"  -> MobileVerifyFound(st, req.s, key, req.info, order)
          [] pc = "live"    -> IF order # NoOrder THEN Done(st, "OK", <<>>)
                               ELSE Await(st, "packing", "orders", key)
          [] pc = "packing" -> IF order # NoOrder THEN Done(st, "OK", <<>>)
                               ELSE Done(st, "ORDER_NOT_FOUND", <<>>)

\* what a read of each cache returns at once, and whether it does
ViewNow ==
    [snap  |-> [c \in Collections |-> CacheOf(c)],
     fresh |-> [c \in Collections |-> CacheFresh(c, now)]]

\* the same once call r has come back
ViewAfter(r) ==
    IF r.c \in Collections /\ r.stage = "ok"
    THEN [snap  |-> [ViewNow.snap EXCEPT ![r.c] = r.data],
          fresh |-> [ViewNow.fresh EXCEPT ![r.c] = (now - r.t0) < TTL(r.c)]]
    ELSE ViewNow

\* calls of fetchOrders that find the cache fresh return without waiting
RECURSIVE Skip(_, _)
Skip(todo, fresh) ==
    IF todo # <<>> /\ Head(todo) = "orders" /\ fresh THEN Skip(Tail(todo), fresh)
    ELSE todo

\* the handler runs on for as long as its reads are served from the cache
RECURSIVE Advance(_, _, _)
Advance(req, p, view) ==
    IF p.pc = "done" THEN [p EXCEPT !.todo = Skip(@, view.fresh["orders"])]
    ELSE IF view.fresh[p.c]
         THEN Advance(req,
                      Step(req, p.pc, p.o, Items(view.snap[p.c]),
                           [cs |-> p.cs, pv |-> p.pv, pr |-> p.pr]),
                      view)
         ELSE p

\* requests begun so far
Started == last.n + Cardinality({r \in inflight : r.op # "read"})

\* the handler either answers or is suspended at its next await
Settle(base, id, req, p) ==
    /\ customerSessions' = p.cs
    /\ pendingVerifications' = p.pv
    /\ proved' = p.pr
    /\ IF p.pc = "done" /\ p.todo = <<>>
       THEN /\ inflight' = base
            /\ last' = [n |-> last.n + 1, op |-> req.op, s |-> req.s, o |-> req.o,
                        code |-> p.code]
       ELSE LET c == IF p.pc = "done" THEN Head(p.todo) ELSE p.c
            IN  /\ inflight' = base \cup
                      {[id |-> id, op |-> req.op, c |-> c, t0 |-> now,
                        stage |-> "waiting", data |-> NoCache,
                        seen |-> NoCache, seenAt |-> 0,
                        s |-> req.s, o |-> req.o, info |-> req.info,
                        pc |-> p.pc, key |-> p.o, code |-> p.code,
                        todo |-> IF p.pc = "done" THEN Tail(p.todo) ELSE <<>>]}
                /\ last' = last

Request(op, s, o, info) == [op |-> op, s |-> s, o |-> o, info |-> info]

\* the requests the model still lets in
Accepting == Started < MaxRequests /\ FreeIds # {}

\* a request arrives and its handler runs to its first await or to its answer
Serve(req, plan) ==
    /\ Settle(inflight, NextId, req, Advance(req, plan, ViewNow))
    /\ UNCHANGED <<now, upstream, cacheVars, issued, histVars, probe>>

\* sessionId || 'default-session'
OrDefault(s) == IF s = NoSid THEN DefaultSession ELSE s

Callers == SessionIds \cup {NoSid}

\* POST /api/chat
LegacyChat ==
    \E s \in Callers, m \in Messages :
        /\ Accepting
        /\ Serve(Request("chat", OrDefault(s), Empty, m),
              processMessage(Store, OrDefault(s), m))

\* GET /api/track/:orderId
LegacyTrack ==
    \E s \in Callers, o \in OrderKeys :
        /\ Accepting
        /\ Serve(Request("track", OrDefault(s), o, Empty),
              Gated(Store, LegacyGate(customerSessions, OrDefault(s), o),
                    "track", "orders", o))

\* GET /api/driver-location/:orderId
LegacyDriverLocation ==
    \E s \in Callers, o \in OrderKeys :
        /\ Accepting
        /\ Serve(Request("driver", OrDefault(s), o, Empty),
              Gated(Store, LegacyGate(customerSessions, OrDefault(s), o),
                    "driver", "orders", o))

\* GET /api/packing-status/:orderId
LegacyPackingStatus ==
    \E s \in Callers, o \in OrderKeys :
        /\ Accepting
        /\ Serve(Request("packing", OrDefault(s), o, Empty),
              Gated(Store, LegacyGate(customerSessions, OrDefault(s), o),
                    "live", "todays", o))

\* a token uuidv4() may return: a key nobody has used
FreshTokens ==
    {t \in SessionIds \ {DefaultSession} :
        /\ t \notin issued
        /\ customerSessions[t].kind = "absent"
        /\ ~pendingVerifications[t].has
        /\ \A r \in inflight : r.s # t}

\* POST /api/v1/session
MobileSession ==
    /\ Accepting
    /\ \/ /\ last' = [n |-> last.n + 1, op |-> "session", s |-> NoSid, o |-> Empty,
                      code |-> "MISSING_DEVICE_ID"]
          /\ UNCHANGED <<customerSessions, issued>>
       \/ \E t \in FreshTokens :
            /\ customerSessions' =
                   [customerSessions EXCEPT ![t] = NewObject(now + SESSION_EXPIRY)]
            /\ issued' = issued \cup {t}
            /\ last' = [n |-> last.n + 1, op |-> "session", s |-> t, o |-> Empty,
                        code |-> "SESSION_CREATED"]
    /\ UNCHANGED <<now, upstream, cacheVars, inflight, pendingVerifications, proved,
                   histVars, probe>>

\* POST /api/v1/chat
MobileChat ==
    \E s \in Callers, m \in Messages :
        /\ Accepting
        /\ Serve(Request("mchat", s, Empty, m), MobileChatPlan(Store, s, m))

\* GET /api/v1/orders/:orderId/track
MobileTrack ==
    \E s \in Callers, o \in OrderKeys :
        /\ Accepting
        /\ Serve(Request("mtrack", s, o, Empty),
              IF s = NoSid THEN Done(Store, "UNAUTHORIZED", <<>>)
              ELSE Gated(Store, MobileTrackGate(customerSessions, s, o),
                         "mtrack", "orders", o))

\* POST /api/v1/orders/:orderId/verify
MobileVerify ==
    \E s \in Callers, o \in OrderKeys, identifier \in Idents :
        /\ Accepting
        /\ Serve(Request("verify", s, o, identifier),
              IF s = NoSid THEN Done(Store, "UNAUTHORIZED", <<>>)
              ELSE IF identifier = Empty THEN Done(Store, "MISSING_IDENTIFIER", <<>>)
              ELSE Await(Store, "verify", "orders", o))

\* GET /api/v1/orders/:orderId/driver-location
MobileDriverLocation ==
    \E s \in Callers, o \in OrderKeys :
        /\ Accepting
        /\ Serve(Request("mdriver", s, o, Empty),
              IF s = NoSid THEN Done(Store, "UNAUTHORIZED", <<>>)
              ELSE Gated(Store, MobileDriverGate(customerSessions, s, o),
                         "driver", "orders", o))

\* what the call r returns to the handler that awaited it
Returned(r) == IF r.stage = "ok" THEN r.data ELSE StaleOrEmpty(r.c)

\* what the return of call r does to the caches
Absorb(r) ==
    IF r.c \in Collections /\ r.stage = "ok"
    THEN /\ StoreSnapshot(r.c, r.data, r.t0)
         /\ lastOkAt' = [lastOkAt EXCEPT ![r.c] = r.t0]
         /\ UNCHANGED lastFailAt
    ELSE IF r.c \in Collections
    THEN /\ lastFailAt' = [lastFailAt EXCEPT ![r.c] = now]
         /\ UNCHANGED <<cacheVars, lastOkAt>>
    ELSE UNCHANGED <<cacheVars, lastOkAt, lastFailAt>>

\* the call a handler awaits comes back, well or badly, and the handler goes
\* on; the answer and the continuation are one step, as no other request can
\* tell them apart
HandlerResume ==
    \E w \in inflight, stage \in {"ok"} \cup FetchFailures :
        /\ w.op # "read"
        /\ LET r == [w EXCEPT !.stage = stage,
                              !.data = IF stage = "ok" THEN upstream ELSE NoCache]
               req == Request(r.op, r.s, r.o, r.info)
               p == IF r.pc = "done" THEN Done(Store, r.code, r.todo)
                    ELSE Step(req, r.pc, r.key, Items(Returned(r)), Store)
           IN  /\ Absorb(r)
               /\ Settle(inflight \ {w}, r.id, req, Advance(req, p, ViewAfter(r)))
        /\ UNCHANGED <<now, upstream, issued, reads, probe>>

NextSession ==
    \/ TickDay
    \/ UpstreamChange
    \/ LegacyChat
    \/ LegacyTrack
    \/ LegacyDriverLocation
    \/ LegacyPackingStatus
    \/ MobileSession
    \/ MobileChat
    \/ MobileTrack
    \/ MobileVerify
    \/ MobileDriverLocation
    \/ HandlerResume

SpecSession == Init /\ [][NextSession]_vars

\* the program after POST /api/v1/session has handed out the token "tok-1":
\* the session expires SESSION_EXPIRY from now; requests are counted from here
InitIssued ==
    /\ now = NowStart
    /\ upstream = 1
    /\ ordersCache = NoCache
    /\ lastFetchTime = 0
    /\ todaysOrdersCache = NoCache
    /\ todaysOrdersFetchTime = 0
    /\ inflight = {}
    /\ customerSessions =
           [s \in SessionIds |-> IF s = "tok-1" THEN NewObject(NowStart + SESSION_EXPIRY)
                                 ELSE NoSession]
    /\ pendingVerifications = [s \in SessionIds |-> NoPending]
    /\ issued = {"tok-1"}
    /\ last = [NoReply EXCEPT !.op = "session", !.s = "tok-1", !.code = "SESSION_CREATED"]
    /\ reads = {}
    /\ lastFailAt = [c \in Collections |-> -1]
    /\ lastOkAt = [c \in Collections |-> -1]
    /\ proved = {}
    /\ probe = NoProbe

SpecIssued == InitIssued /\ [][NextSession]_vars

(***************************************************************************)
(* The verifier on its own: an order and an identifier are drawn, then     *)
(* verifyCustomerOwnership is applied to them                              *)
(***************************************************************************)
Customer(firstName, lastName, phone, email) ==
    [customerOrderId |-> 10001, orderStatus |-> "PLACED",
     phone |-> Chars(phone), email |-> Chars(email),
     firstName |-> Chars(firstName), lastName |-> Chars(lastName),
     deliveryAssociate |-> Empty]

\* orders as upstream delivers them: plain names, a one-letter first name,
\* names with characters that are no letters, missing fields
ProbeOrders ==
    {Customer("Bob", "Lee", "732-555-1234", "Bob@x.io"),
     Customer("J", "Wu", "", ""),
     Customer("Mary-Ann", "O'Neil", "+1 (908) 444-6789", "M.A@y.io"),
     Customer("R2", "", "", "r2@d2.io"),
     Customer("Amy", "K", "5551234", ""),
     Customer("Bob -", "de la Cruz", "", "bo@x.io"),
     Customer("42", "Lee Jr.", "", ""),
     Customer("Sam", "", "", ""),
     Customer("", "", "9084446789", "")}

\* the spellings of a text that differ in case only
Spellings(text) == {text, toLowerCase(text), toUpperCase(text)}

FullNameOf(order) == order.firstName \o <<" ">> \o order.lastName

PhoneDigits(order) == SelectSeq(order.phone, IsDigit)

\* the last n digits of the phone number, for every n from 4 on
PhoneSuffixes(order) ==
    {sliceLast(PhoneDigits(order), n) : n \in 4..Len(PhoneDigits(order))}

\* four digits in a row of the phone number that stop before its end
PhoneInteriors(order) ==
    {SubSeq(PhoneDigits(order), i, i + 3) : i \in 1..(Len(PhoneDigits(order)) - 4)}

\* the part of the e-mail address after the '@', and its last three characters
EmailDomainParts(order) ==
    LET at == indexOf(order.email, "@", 0)
        domain == SubSeq(order.email, at + 2, Len(order.email))
    IN  IF at < 0 THEN {} ELSE {domain, sliceLast(domain, 3)}

\* a name of two letters or more typed with a stray 'x' after its first letter
Mistyped(order) ==
    {<<t[1], "x">> \o SubSeq(t, 2, Len(t)) :
        t \in {u \in {order.firstName, order.lastName} : Len(u) >= 2}}

\* what a caller who knows the order may offer, and what a stranger may
ProbeIdentifiers(order) ==
    UNION {Spellings(t) : t \in {order.firstName, order.lastName, FullNameOf(order),
                                 order.email} \ {Empty}}
    \cup PhoneSuffixes(order)
    \cup PhoneInteriors(order)
    \cup EmailDomainParts(order)
    \cup Mistyped(order)
    \cup {Chars("zzz"), Chars("q"), Chars("zzz999")}

InitVerify ==
    /\ InitSystem
    /\ \E order \in ProbeOrders :
         \E identifier \in ProbeIdentifiers(order) :
            probe = [order |-> order, identifier |-> identifier, result |-> "none"]

Verify ==
    /\ probe.result = "none"
    /\ probe' = [probe EXCEPT !.result =
                    IF verifyCustomerOwnership(probe.order, probe.identifier)
                    THEN "accepted" ELSE "rejected"]
    /\ UNCHANGED <<now, upstream, cacheVars, inflight, sessVars, last, histVars>>

NextVerify == Verify

SpecVerify == InitVerify /\ [][NextVerify]_vars

(***************************************************************************)
(* fuzzyMatch on its own: two texts and a threshold are drawn, then the    *)
(* function is applied to them                                             *)
(***************************************************************************)
MaxWordLen == 3

FuzzyAlphabet == {"a", "b", "c"}

RECURSIVE Words(_)
Words(n) ==
    IF n = 0 THEN {Empty}
    ELSE Words(n - 1) \cup {Append(w, c) : w \in Words(n - 1), c \in FuzzyAlphabet}

FuzzyTexts ==
    Words(MaxWordLen)
    \cup {Chars("jon"), Chars("john"), Chars("xyz"), Chars("J.o-N"), Chars("nhoj"),
          Chars("johnny")}

\* the thresholds verifyCustomerOwnership passes
FuzzyPercents == {50, 60, 70}

InitFuzzy ==
    /\ InitSystem
    /\ \E input \in FuzzyTexts, target \in FuzzyTexts, percent \in FuzzyPercents :
         probe = [input |-> input, target |-> target, minMatchPercent |-> percent,
                  result |-> "none"]

Match ==
    /\ probe.result = "none"
    /\ probe' = [probe EXCEPT !.result =
                    IF fuzzyMatch(probe.input, probe.target, probe.minMatchPercent)
                    THEN "accepted" ELSE "rejected"]
    /\ UNCHANGED <<now, upstream, cacheVars, inflight, sessVars, last, histVars>>

NextFuzzy == Match

SpecFuzzy == InitFuzzy /\ [][NextFuzzy]_vars

(***************************************************************************)
(* getRouteProgress: the stops of one route, taken from the cached wide    *)
(* order list                                                              *)
(***************************************************************************)
\* an order's deliverySeq when the field is missing
NoSeq == -1

\* the address field of an order: a text that no other order has
AddressOf(id) == <<"door", id>>

RouteOrder(id, status, associate, seq) ==
    [customerOrderId |-> id, orderStatus |-> status,
     deliveryAssociate |-> associate, deliverySeq |-> seq,
     address |-> AddressOf(id)]

\* text.replace(/"/g, '')
StripQuotes(text) == SelectSeq(text, NotQuote)

\* (o.deliverySeq || 0)
SeqKey(o) == IF o.deliverySeq = NoSeq THEN 0 ELSE o.deliverySeq

OnRoute_TargetAsGiven(o, routeId) == StripQuotes(o.deliveryAssociate) = routeId

\* (o.deliveryAssociate || '').replace(/"/g, '') === routeId.replace(/"/g, '')
OnRoute(o, routeId) == StripQuotes(o.deliveryAssociate) = StripQuotes(routeId)

\* orders.filter(o => ...)
RouteFilter(orders, routeId) == SelectSeq(orders, LAMBDA o : OnRoute(o, routeId))

\* the place the stable sort gives to the stop at place i: behind every stop
\* with a smaller key and behind the earlier stops with the same key
PlaceBySeq(orders, i) ==
    Cardinality({j \in 1..Len(orders) :
                    \/ SeqKey(orders[j]) < SeqKey(orders[i])
                    \/ SeqKey(orders[j]) = SeqKey(orders[i]) /\ j <= i})

SortBySeq_AsCached(orders) == orders

\* routeOrders.sort((a, b) => (a.deliverySeq || 0) - (b.deliverySeq || 0))
SortBySeq(orders) ==
    LET place == [i \in 1..Len(orders) |-> PlaceBySeq(orders, i)]
    IN  [k \in 1..Len(orders) |-> orders[CHOOSE i \in 1..Len(orders) : place[i] = k]]

IsDelivered(o) == o.orderStatus = "DELIVERED"

\* routeOrders.filter(o => o.orderStatus === 'DELIVERED').length
DeliveredCount(orders) == Cardinality({i \in 1..Len(orders) : IsDelivered(orders[i])})

\* the shares delivered / total, in lowest terms, whose hundredfold is an
\* exact half in the reals and falls just below it in double arithmetic:
\* (23 / 40) * 100 is 57.49999999999999
RoundedBelow == {<<23, 40>>, <<29, 200>>, <<57, 200>>, <<113, 200>>}

\* variant: the share is rounded up
ProgressPercent_RoundedUp(delivered, total) ==
    (100 * delivered + total - 1) \div total

\* Math.round((delivered / total) * 100)
ProgressPercent(delivered, total) ==
    LET nearest == (200 * delivered + total) \div (2 * total)
    IN  IF \E f \in RoundedBelow : delivered * f[2] = total * f[1]
        THEN nearest - 1 ELSE nearest

\* the entry of the result's order list
StopOf(o) ==
    [orderId |-> o.customerOrderId, seq |-> o.deliverySeq, status |-> o.orderStatus,
     address |-> o.address]

StopsOf(orders) == [i \in 1..Len(orders) |-> StopOf(orders[i])]

\* return null
NoProgress ==
    [isNull |-> TRUE, routeId |-> Empty, totalStops |-> 0, completedStops |-> 0,
     pendingStops |-> 0, currentStopSeq |-> 0, currentStopAddress |-> Empty,
     lastDeliveredAddress |-> Empty, progressPercent |-> 0, orders |-> <<>>]

\* variant: the first delivered stop is taken, not the last
LastDelivered_First(routeOrders) ==
    LET done == {i \in 1..Len(routeOrders) : IsDelivered(routeOrders[i])}
    IN  IF done = {} THEN 0 ELSE Least(done)

\* routeOrders.filter(o => o.orderStatus === 'DELIVERED').pop(): the place of
\* the last delivered stop, 0 when there is none
LastDelivered(routeOrders) ==
    LET done == {i \in 1..Len(routeOrders) : IsDelivered(routeOrders[i])}
    IN  IF done = {} THEN 0 ELSE CHOOSE i \in done : \A j \in done : j <= i

getRouteProgress(orders, routeId) ==
    IF routeId = Empty \/ routeId = Chars("\"\"") THEN NoProgress
    ELSE LET routeOrders == SortBySeq(RouteFilter(orders, routeId))
             delivered == DeliveredCount(routeOrders)
             total == Len(routeOrders)
             pending == {i \in 1..total : ~IsDelivered(routeOrders[i])}
             lastDelivered == LastDelivered(routeOrders)
         IN  IF total = 0 THEN NoProgress
             ELSE [isNull |-> FALSE, routeId |-> routeId, totalStops |-> total,
                   completedStops |-> delivered, pendingStops |-> total - delivered,
                   currentStopSeq |-> IF pending = {} THEN total
                                      ELSE routeOrders[Least(pending)].deliverySeq,
                   currentStopAddress |-> IF pending = {} THEN Empty
                                          ELSE routeOrders[Least(pending)].address,
                   lastDeliveredAddress |-> IF lastDelivered = 0 THEN Empty
                                            ELSE routeOrders[lastDelivered].address,
                   progressPercent |-> ProgressPercent(delivered, total),
                   orders |-> StopsOf(routeOrders)]

(***************************************************************************)
(* getRouteProgress on its own: a content of the wide order cache and a    *)
(* route label are drawn, then the function is applied to them             *)
(***************************************************************************)
MaxRouteOrders == 2

\* the labels the orders API stores in deliveryAssociate
StoredLabels == {Chars("giga-north"), Chars("\"giga-north\""), Chars("\"\""), Empty}

RouteShapes ==
    [orderStatus : {"DELIVERED", "OUT_FOR_DELIVERY"}, deliveryAssociate : StoredLabels,
     deliverySeq : {NoSeq, 1, 2}]

ShapedCaches(n) ==
    {[i \in 1..n |-> RouteOrder(i, f[i].orderStatus, f[i].deliveryAssociate,
                                f[i].deliverySeq)] : f \in [1..n -> RouteShapes]}

\* three stops delivered and two to go, as the orders API may list them
ExampleRoute ==
    <<RouteOrder(104, "OUT_FOR_DELIVERY", Chars("giga-north"), 4),
      RouteOrder(102, "DELIVERED", Chars("\"giga-north\""), 2),
      RouteOrder(201, "PLACED", Chars("\"\""), NoSeq),
      RouteOrder(105, "COMPLETED", Chars("\"giga-north\""), 5),
      RouteOrder(101, "DELIVERED", Chars("giga-north"), 1),
      RouteOrder(301, "OUT_FOR_DELIVERY", Chars("kranthi-west"), 1),
      RouteOrder(103, "DELIVERED", Chars("giga-north"), 3)>>

\* a finished route with stops that share a sequence number or have none
FinishedRoute ==
    <<RouteOrder(113, "DELIVERED", Chars("giga-north"), 2),
      RouteOrder(111, "DELIVERED", Chars("\"giga-north\""), NoSeq),
      RouteOrder(112, "DELIVERED", Chars("giga-north"), 2),
      RouteOrder(202, "STARTED", Empty, NoSeq)>>

\* a route of forty stops of which twenty-three are delivered
LongRoute ==
    [i \in 1..40 |->
        RouteOrder(1000 + i, IF i <= 23 THEN "DELIVERED" ELSE "OUT_FOR_DELIVERY",
                   Chars("giga-north"), i)]

\* a route of n stops in sequence of which the first d are delivered
CountedRoute(n, d) ==
    [i \in 1..n |->
        RouteOrder(2000 + i, IF i <= d THEN "DELIVERED" ELSE "OUT_FOR_DELIVERY",
                   Chars("giga-north"), i)]

\* routes on which all stops but one are delivered, or one stop only
CountedRoutes ==
    {CountedRoute(199, 198), CountedRoute(199, 1),
     CountedRoute(200, 199), CountedRoute(201, 1)}

RouteCaches ==
    UNION {ShapedCaches(n) : n \in 0..MaxRouteOrders}
    \cup {ExampleRoute, FinishedRoute, LongRoute}
    \cup CountedRoutes

RouteLabels ==
    {Chars("giga-north"), Chars("\"giga-north\""), Chars("kranthi-west"),
     Empty, Chars("\"\""), Chars("\""), Chars("\"\"\"")}

InitRoute ==
    /\ InitSystem
    /\ \E orders \in RouteCaches, routeId \in RouteLabels :
         probe = [orders |-> orders, routeId |-> routeId, asked |-> FALSE,
                  progress |-> NoProgress]

Progress ==
    /\ ~probe.asked
    /\ probe' = [probe EXCEPT !.asked = TRUE,
                              !.progress = getRouteProgress(probe.orders, probe.routeId)]
    /\ UNCHANGED <<now, upstream, cacheVars, inflight, sessVars, last, histVars>>

NextRoute == Progress

SpecRoute == InitRoute /\ [][NextRoute]_vars

(***************************************************************************)
(* getDeliveryEstimate: the estimate for one order, with the route         *)
(* progress read from the cached wide order list                           *)
(***************************************************************************)
\* const avgTimePerStop = 12
avgTimePerStop == 12

\* order.deliverySeq || 1
SeqOrFirst(order) == IF order.deliverySeq \in {NoSeq, 0} THEN 1 ELSE order.deliverySeq

LooksUp_EveryStatus(order, route) == route # Empty

\* whether getRouteProgress is called: the four early returns come first,
\* then if (driverInfo && driverInfo.route)
LooksUp(order, route) ==
    /\ order.orderStatus \notin {"DELIVERED", "CANCELLED", "PLACED", "STARTED"}
    /\ route # Empty

StopsAway_Signed(order, route, orders) ==
    IF route # Empty /\ ~getRouteProgress(orders, route).isNull
    THEN SeqOrFirst(order) - getRouteProgress(orders, route).completedStops
    ELSE SeqOrFirst(order)

\* let stopsAway = deliverySeq; ... stopsAway = deliverySeq -
\* routeProgress.completedStops; if (stopsAway < 0) stopsAway = 0
StopsAway(order, route, orders) ==
    IF route # Empty /\ ~getRouteProgress(orders, route).isNull
    THEN Max(SeqOrFirst(order) - getRouteProgress(orders, route).completedStops, 0)
    ELSE SeqOrFirst(order)

MinTime_Product(stopsAway) == stopsAway * avgTimePerStop

\* const minTime = Math.max(stopsAway * avgTimePerStop, 5)
MinTime(stopsAway) == Max(stopsAway * avgTimePerStop, 5)

\* an estimate whose numeric fields are null (known is FALSE) or given
Estimate(eta, known, stopsAway, minutes, maxTime, message, lookup) ==
    [eta |-> eta, known |-> known, stopsAway |-> stopsAway,
     estimatedMinutes |-> minutes, maxTime |-> maxTime, message |-> message,
     lookup |-> lookup]

NoEstimate == Estimate("", FALSE, 0, 0, 0, "", FALSE)

\* route is driverInfo.route, the empty text when driverInfo is null; orders
\* is what fetchOrders returns to getRouteProgress
getDeliveryEstimate(order, route, orders) ==
    LET status == order.orderStatus
        stopsAway == StopsAway(order, route, orders)
        lookup == LooksUp(order, route)
    IN  CASE status = "DELIVERED" -> Estimate("Delivered", TRUE, 0, 0, 0, "delivered", lookup)
          [] status = "CANCELLED" -> Estimate("Cancelled", TRUE, 0, 0, 0, "cancelled", lookup)
          [] status = "PLACED" -> Estimate("Pending", FALSE, 0, 0, 0, "processed", lookup)
          [] status = "STARTED" -> Estimate("Packing", FALSE, 0, 0, 0, "packed", lookup)
          [] status = "COMPLETED" ->
                Estimate("Ready for pickup", TRUE, stopsAway,
                         stopsAway * avgTimePerStop + 15,
                         stopsAway * avgTimePerStop + 30, "ready", lookup)
          [] status = "OUT_FOR_DELIVERY" ->
                Estimate("min", TRUE, stopsAway, MinTime(stopsAway),
                         MinTime(stopsAway) + 15,
                         IF stopsAway = 0 THEN "heading to you now" ELSE "stops before you",
                         lookup)
          [] OTHER -> Estimate("Calculating...", FALSE, 0, 0, 0, "calculating", lookup)

(***************************************************************************)
(* getDeliveryEstimate on its own: an order and a content of the wide      *)
(* order cache are drawn, then the function is applied as its callers do,  *)
(* with driverInfo = formatDriverName(order.deliveryAssociate)             *)
(***************************************************************************)
MaxEstimateStops == 3

EstimateStatuses ==
    {"PLACED", "STARTED", "COMPLETED", "OUT_FOR_DELIVERY", "DELIVERED", "CANCELLED",
     "RETURNED", ""}

EstimateOrders ==
    {RouteOrder(10001, status, associate, seq) :
        status \in EstimateStatuses,
        associate \in {Chars("giga-north"), Chars("\"giga-north\""), Chars("\"\""), Empty},
        seq \in {NoSeq, 0, 1, 2, 3}}

StopShapes ==
    [orderStatus : {"DELIVERED", "OUT_FOR_DELIVERY"},
     deliveryAssociate : {Chars("giga-north"), Chars("\"\"")}]

StopCaches(n) ==
    {[i \in 1..n |-> RouteOrder(i, f[i].orderStatus, f[i].deliveryAssociate, i)] :
        f \in [1..n -> StopShapes]}

EstimateCaches == UNION {StopCaches(n) : n \in 0..MaxEstimateStops}

InitEstimate ==
    /\ InitSystem
    /\ \E order \in EstimateOrders, orders \in EstimateCaches :
         probe = [order |-> order, orders |-> orders, asked |-> FALSE,
                  estimate |-> NoEstimate]

EstimateOrder ==
    /\ ~probe.asked
    /\ probe' = [probe EXCEPT !.asked = TRUE,
                              !.estimate = getDeliveryEstimate(
                                  probe.order, RouteOf(probe.order.deliveryAssociate),
                                  probe.orders)]
    /\ UNCHANGED <<now, upstream, cacheVars, inflight, sessVars, last, histVars>>

NextEstimate == EstimateOrder

SpecEstimate == InitEstimate /\ [][NextEstimate]_vars

(***************************************************************************)
(* getOrderWithLiveStatus: today's snapshot first, then the wide one.  The *)
(* snapshots are the arrays fetchTodaysOrders and fetchOrders return, that *)
(* is the cached arrays themselves, so what the function writes to an      *)
(* order it found is written to the cache                                  *)
(***************************************************************************)
\* an order as far as the lookup reads and writes it; source is the
\* property _source, the empty text when the order has none
LiveOrder(id, status, source) ==
    [customerOrderId |-> id, orderStatus |-> status, source |-> source]

\* orders.find(o => o.customerOrderId === parseInt(orderId)): the place of
\* the order found, 0 when there is none
FindPlace(orders, orderId) ==
    LET hits == {i \in 1..Len(orders) : orders[i].customerOrderId = parseInt(orderId)}
    IN  IF hits = {} THEN 0 ELSE Least(hits)

TodaysPlace_Skipped(todaysOrders, orderId) == 0

\* let order = todaysOrders.find(...)
TodaysPlace(todaysOrders, orderId) == FindPlace(todaysOrders, orderId)

\* the returned order (found is FALSE for undefined), the two snapshots as
\* the call leaves them, and whether findOrderById was called
LiveResult(found, order, todaysOrders, orders, wide) ==
    [found |-> found, order |-> order, todays |-> todaysOrders, orders |-> orders,
     wide |-> wide]

NoLiveOrder == LiveOrder(NaN, "", Empty)

getOrderWithLiveStatus(todaysOrders, orders, orderId) ==
    LET t == TodaysPlace(todaysOrders, orderId)
        w == FindPlace(orders, orderId)
    IN  IF t # 0
        THEN LiveResult(TRUE, [todaysOrders[t] EXCEPT !.source = Chars("todays")],
                        [todaysOrders EXCEPT ![t].source = Chars("todays")], orders, FALSE)
        ELSE IF w # 0
        THEN LiveResult(TRUE, [orders[w] EXCEPT !.source = Chars("historical")],
                        todaysOrders, [orders EXCEPT ![w].source = Chars("historical")],
                        TRUE)
        ELSE LiveResult(FALSE, NoLiveOrder, todaysOrders, orders, TRUE)

(***************************************************************************)
(* getOrderWithLiveStatus on its own: the contents of the two caches and   *)
(* an order id are drawn, then the function is applied to them             *)
(***************************************************************************)
MaxLiveOrders == 2

LiveShapes == [customerOrderId : {10001, 20002}, orderStatus : {"PLACED", "DELIVERED"}]

LiveSnapshots(n) ==
    {[i \in 1..n |-> LiveOrder(f[i].customerOrderId, f[i].orderStatus, Empty)] :
        f \in [1..n -> LiveShapes]}

LiveCaches == UNION {LiveSnapshots(n) : n \in 0..MaxLiveOrders}

InitLive ==
    /\ InitSystem
    /\ \E todaysOrders \in LiveCaches, orders \in LiveCaches, orderId \in OrderKeys :
         probe = [todays |-> todaysOrders, orders |-> orders, orderId |-> orderId,
                  asked |-> FALSE,
                  result |-> LiveResult(FALSE, NoLiveOrder, todaysOrders, orders, FALSE)]

LiveStatus ==
    /\ ~probe.asked
    /\ probe' = [probe EXCEPT !.asked = TRUE,
                              !.result = getOrderWithLiveStatus(probe.todays, probe.orders,
                                                                probe.orderId)]
    /\ UNCHANGED <<now, upstream, cacheVars, inflight, sessVars, last, histVars>>

NextLive == LiveStatus

SpecLive == InitLive /\ [][NextLive]_vars

(***************************************************************************)
(* Claims about the verifier                                               *)
(***************************************************************************)
EqualIgnoringCase(a, b) == toLowerCase(a) = toLowerCase(b)

\* the identifier is a field of the order up to case, or a suffix of four
\* digits or more of its phone number
OffersField(order, identifier) ==
    \/ \E t \in {order.firstName, order.lastName, order.email} \ {Empty} :
         EqualIgnoringCase(identifier, t)
    \/ /\ order.firstName # Empty /\ order.lastName # Empty
       /\ EqualIgnoringCase(identifier, FullNameOf(order))
    \/ identifier \in PhoneSuffixes(order)

\* what is left of an identifier once it is lower-cased, trimmed and rid of
\* everything but letters and blanks
LettersOf(identifier) ==
    CollapseSpaces(SelectSeq(trim(toLowerCase(identifier)), IsLowerOrSpace))

\* the identifier is long enough for the check of the field it repeats:
\* two letters for a name, three characters for the e-mail address
LongEnough(order, identifier) ==
    \/ /\ \E t \in {order.firstName, order.lastName} \ {Empty} :
            EqualIgnoringCase(identifier, t)
       /\ Len(LettersOf(identifier)) >= 2
    \/ /\ order.firstName # Empty /\ order.lastName # Empty
       /\ EqualIgnoringCase(identifier, FullNameOf(order))
       /\ Len(LettersOf(identifier)) >= 2
    \/ /\ order.email # Empty
       /\ EqualIgnoringCase(identifier, order.email)
       /\ Len(trim(identifier)) >= 3
    \/ identifier \in PhoneSuffixes(order)

\* C10 as claimed: the verifier accepts every identifier that repeats a
\* field of the order up to case (first name, last name, full name, e-mail,
\* a phone suffix of four digits or more), one-letter names and names with
\* characters that are no letters included.
C10_Original ==
    (probe.result # "none" /\ OffersField(probe.order, probe.identifier))
        => probe.result = "accepted"

\* C10 amended: the verifier accepts such an identifier when it is long
\* enough once normalised: a name or full name that keeps two letters or
\* more after everything but letters and blanks is dropped, an e-mail
\* address of three characters or more, a phone suffix of four digits or
\* more.  A one-letter name, or a name that keeps fewer than two letters,
\* is rejected.
C10_AcceptsLongEnoughFields ==
    (probe.result # "none" /\ LongEnough(probe.order, probe.identifier))
        => probe.result = "accepted"

C10_Witness ==
    /\ probe.result = "accepted"
    /\ probe.order.firstName = Chars("Mary-Ann")
    /\ probe.identifier = Chars("MARY-ANN")

(***************************************************************************)
(* Claims about the session store                                          *)
(***************************************************************************)
\* isVerified(s, o)
isVerified(s, o) == Has(customerSessions[s].verifiedOrders, o)

\* C1: in every reachable state an order id is in the verified set of a
\* session only if verifyCustomerOwnership has returned true for that order
\* on a request carrying that session; nothing else adds an order id.
C1_VerifiedOnlyByVerifier ==
    \A s \in SessionIds : \A o \in OrderKeys :
        isVerified(s, o) => <<s, o>> \in proved

C1_Witness ==
    \E s \in SessionIds : \E o \in OrderKeys :
        isVerified(s, o) /\ last.code = "VERIFIED" /\ last.s = s

\* C2: once an order is verified for a session, every gate (chat order
\* query, chat payment query, the three legacy tracking routes, the two
\* mobile tracking routes) treats it as verified, whichever way the session
\* record was created.
C2_EveryGateHonoursVerification ==
    \A s \in SessionIds : \A o \in OrderKeys :
        isVerified(s, o) =>
            /\ ChatOrderGate(customerSessions, s, o) = "VERIFIED"
            /\ PaymentGate(customerSessions, s, o) = "VERIFIED"
            /\ LegacyGate(customerSessions, s, o) = "VERIFIED"
            /\ MobileTrackGate(customerSessions, s, o) = "VERIFIED"
            /\ MobileDriverGate(customerSessions, s, o) = "VERIFIED"

\* a step that answers a request of session s with "verification failed"
FailedAttempt(s) ==
    /\ last'.n = last.n + 1
    /\ last'.code = "VERIFICATION_FAILED"
    /\ last'.s = s

\* C3: a verification attempt whose identifier does not match leaves the
\* verified set of the session unchanged and leaves the pending record of
\* the session in place with the same order.
C3_FailedAttemptKeepsPending ==
    [][\A s \in SessionIds :
          FailedAttempt(s) =>
              /\ customerSessions'[s].verifiedOrders = customerSessions[s].verifiedOrders
              /\ pendingVerifications[s].has =>
                     pendingVerifications'[s] = pendingVerifications[s]]_vars

\* C4: every operation that consults the session store ends with a typed
\* outcome, whatever created the session; none ends in an uncaught fault.
C4_NoUncaughtFault == last.code # "FAULT"

\* the session was issued with an expiry that has passed
Expired(s) ==
    /\ s \in issued
    /\ customerSessions[s].expiresAt # 0
    /\ now > customerSessions[s].expiresAt

\* C5: once a session issued by POST /api/v1/session is older than 24 h,
\* no gate treats any order as verified for it.
C5_ExpiredSessionIsAbsent ==
    \A s \in SessionIds : \A o \in OrderKeys :
        Expired(s) =>
            /\ MobileTrackGate(customerSessions, s, o) # "VERIFIED"
            /\ MobileDriverGate(customerSessions, s, o) # "VERIFIED"

(***************************************************************************)
(* Claims about the cache                                                  *)
(***************************************************************************)
\* a logged read began while a snapshot was stored and younger than its TTL
FreshAtStart(e) == e.seen # NoCache /\ (e.t - e.seenAt) < TTL(e.c)

\* read e began inside the TTL window opened by the successful fetch w
InWindow(e, w) == e.c = w.c /\ w.t <= e.t /\ e.t < w.t + TTL(w.c)

\* C6 as claimed: any two reads that fall within one TTL window (the TTL
\* after the timestamp of a successful fetch) return the identical snapshot,
\* and all reads of that window together make at most one upstream fetch.
C6_Original ==
    \A w \in reads :
        w.kind = "ok" =>
            /\ \A e1, e2 \in reads :
                 InWindow(e1, w) /\ InWindow(e2, w) => e1.snap = e2.snap
            /\ Cardinality({e \in reads : InWindow(e, w) /\ e.kind # "hit"}) <= 1

\* C6 amended: any two reads that both begin while the same snapshot is
\* stored and younger than its TTL return that identical snapshot and make
\* no upstream fetch; only reads that begin before the snapshot is stored
\* (concurrent misses, a read whose fetch failed) fetch or differ.
C6_FreshReadsAgree ==
    \A e1, e2 \in reads :
        (e1.c = e2.c /\ FreshAtStart(e1) /\ FreshAtStart(e2) /\ e1.seen = e2.seen)
            => /\ e1.kind = "hit" /\ e2.kind = "hit"
               /\ e1.snap = e1.seen /\ e2.snap = e1.snap

C6_Witness ==
    \E w, e \in reads :
        /\ w.kind = "ok" /\ e.kind = "hit" /\ InWindow(e, w)
        /\ e.t > w.t /\ e.snap = w.snap

\* C7: a read whose upstream fetch fails (network error, payload without
\* items) returns the stored snapshot when there is one and an empty list
\* otherwise, never an error, and leaves snapshot and timestamp as they were.
C7_FailedFetchServesStale ==
    [][\A r \in inflight :
          (r.op = "read" /\ r.stage \in FetchFailures /\ r \notin inflight')
              => /\ cacheVars' = cacheVars
                 /\ Logged(r, "fail",
                           IF CacheOf(r.c) = NoCache THEN EmptyList ELSE CacheOf(r.c))
                      \in reads'
                 /\ \A e \in reads' : e.snap \in PayloadIds \cup {EmptyList}]_vars

C7_Witness ==
    \E e \in reads : e.kind = "fail" /\ e.snap \in PayloadIds /\ e.snap = CacheOf(e.c)

\* C8 as claimed: after a refresh of a collection fails, no upstream fetch
\* for that collection is started until its TTL has elapsed since the failure.
C8_Original ==
    [][\A r \in inflight' \ inflight :
          (r.stage = "waiting" /\ lastFailAt[r.c] # -1)
              => now - lastFailAt[r.c] >= TTL(r.c)]_vars

\* C8 amended: a failed refresh postpones nothing.  A read is served from
\* the cache without a network call only while the snapshot is younger than
\* its TTL counted from the last successful fetch; a read that finds the
\* snapshot missing or older calls upstream again at once, however recently
\* a refresh failed.
C8_RetryOnNextRead ==
    [][/\ \A e \in reads' \ reads :
             e.kind = "hit" => (lastOkAt[e.c] # -1 /\ e.t - lastOkAt[e.c] < TTL(e.c))
       /\ \A c \in Collections :
             (lastFailAt'[c] # lastFailAt[c]) => UNCHANGED <<cacheVars, lastOkAt>>]_vars

C8_Witness ==
    \E r \in inflight :
        /\ r.stage = "waiting" /\ lastFailAt[r.c] # -1
        /\ r.t0 >= lastFailAt[r.c] /\ r.t0 - lastFailAt[r.c] < TTL(r.c)

Busy(i) == \E r \in inflight : r.id = i

\* C9: every cache read eventually returns to its caller, also when the
\* upstream call never answers (a hung fetch fails after a bounded timeout).
C9_ReadsReturn == \A i \in 1..MaxInflight : Busy(i) ~> ~Busy(i)

(***************************************************************************)
(* The rules of the verifier as the specification words them (4.2), to     *)
(* say which identifiers are unrelated to an order                         *)
(***************************************************************************)
\* 1. phone: last 10 digits of both; equal, one a suffix of the other, or the
\* same last 4 digits; the identifier has 4 digits at least
RulePhone(order, identifier) ==
    LET orderPhone == normalizePhone(order.phone)
        inputPhone == normalizePhone(trim(identifier))
    IN  /\ orderPhone # Empty /\ Len(inputPhone) >= 4
        /\ \/ orderPhone = inputPhone
           \/ endsWith(orderPhone, inputPhone)
           \/ endsWith(inputPhone, orderPhone)
           \/ sliceLast(orderPhone, 4) = sliceLast(inputPhone, 4)

\* 2. e-mail: equal, the local part equal to or contained either way in the
\* identifier, or fuzzy at 70; the identifier has 3 characters at least
RuleEmail(order, identifier) ==
    LET orderEmail == normalizeEmail(order.email)
        inputLower == toLowerCase(trim(identifier))
        localPart  == beforeAt(orderEmail)
    IN  /\ orderEmail # Empty /\ localPart # Empty /\ Len(inputLower) >= 3
        /\ \/ orderEmail = inputLower
           \/ localPart = inputLower
           \/ includes(inputLower, localPart)
           \/ includes(localPart, inputLower)
           \/ includes(orderEmail, inputLower)
           \/ fuzzyMatch(inputLower, localPart, 70)

\* 3. a name that is present: equal, prefix or substring either way, or fuzzy
RuleName(name, inputNormalized, minLen, percent) ==
    /\ name # Empty /\ Len(inputNormalized) >= minLen
    /\ \/ name = inputNormalized
       \/ startsWith(name, inputNormalized) \/ startsWith(inputNormalized, name)
       \/ includes(name, inputNormalized) \/ includes(inputNormalized, name)
       \/ fuzzyMatch(inputNormalized, name, percent)

\* the identifier satisfies some rule of the specification for this order
Related(order, identifier) ==
    LET firstName == normalizeName(order.firstName)
        lastName  == normalizeName(order.lastName)
        fullName  == trim(firstName \o <<" ">> \o lastName)
        inputNormalized == normalizeName(trim(identifier))
    IN  \/ RulePhone(order, identifier)
        \/ RuleEmail(order, identifier)
        \/ RuleName(firstName, inputNormalized, 2, 60)
        \/ RuleName(lastName, inputNormalized, 2, 60)
        \/ RuleName(fullName, inputNormalized, 3, 50)
        \/ RuleName(firstName, inputNormalized, 2, 70)
        \/ RuleName(lastName, inputNormalized, 2, 70)

\* C11: the verifier rejects every identifier that satisfies none of the
\* phone, e-mail, first-name, last-name, full-name and fuzzy rules, for
\* every order, orders with an empty or missing name, phone or e-mail
\* included.
C11_UnrelatedIsRejected ==
    (probe.result # "none" /\ ~Related(probe.order, probe.identifier))
        => probe.result = "rejected"

\* the spellings of a text that differ in case only, one of mixed case included
AlternateCase(text) ==
    [i \in 1..Len(text) |-> IF i % 2 = 1 THEN ToUpperChar(text[i]) ELSE ToLowerChar(text[i])]

Recasings(text) == Spellings(text) \cup {AlternateCase(text)}

\* the order with its names and e-mail address spelt in another case
RecasedOrders(order) ==
    {[order EXCEPT !.firstName = f, !.lastName = l, !.email = e] :
        f \in Recasings(order.firstName), l \in Recasings(order.lastName),
        e \in Recasings(order.email)}

\* C12: the verdict of verifyCustomerOwnership depends on the order and the
\* identifier only, and it is the same for every re-casing of the identifier
\* and of the order's names and e-mail address.
C12_SameForEveryCasing ==
    probe.result # "none" =>
        \A o2 \in RecasedOrders(probe.order), i2 \in Recasings(probe.identifier) :
            verifyCustomerOwnership(o2, i2) = (probe.result = "accepted")

C12_Witness ==
    /\ probe.result = "accepted"
    /\ probe.order.email = Chars("M.A@y.io")
    /\ probe.identifier = Chars("M.A@Y.IO")
    /\ ~verifyCustomerOwnership(probe.order, Chars("zzz"))

(***************************************************************************)
(* The fuzzy match as the specification words it (4.2)                     *)
(***************************************************************************)
\* the characters of the input that are counted: each one found in the
\* target at or after the cursor, which then moves past the place found
RECURSIVE RefMatched(_, _, _)
RefMatched(input, target, cursor) ==
    IF input = <<>> THEN 0
    ELSE LET found == {k \in cursor..Len(target) : target[k] = Head(input)}
         IN  IF found = {} THEN RefMatched(Tail(input), target, cursor)
             ELSE 1 + RefMatched(Tail(input), target, Least(found) + 1)

RefFuzzy(input, target, threshold) ==
    LET a == SelectSeq(toLowerCase(input), IsLowerAlnum)
        b == SelectSeq(toLowerCase(target), IsLowerAlnum)
    IN  /\ Len(a) >= 2 /\ Len(b) >= 2
        /\ \/ a = b
           \/ includes(a, b) \/ includes(b, a)
           \/ RefMatched(a, b, 1) * 100 >= threshold * Min(Len(a), Len(b))

\* C13: fuzzyMatch gives the verdict of the reference algorithm for every
\* input, target and threshold; "jon" matches "john" at 60 and "xyz" does
\* not.
C13_FuzzyIsReference ==
    probe.result # "none" =>
        /\ (probe.result = "accepted")
             = RefFuzzy(probe.input, probe.target, probe.minMatchPercent)
        /\ (probe.input = Chars("jon") /\ probe.target = Chars("john")
            /\ probe.minMatchPercent = 60) => probe.result = "accepted"
        /\ (probe.input = Chars("xyz") /\ probe.target = Chars("john")
            /\ probe.minMatchPercent = 60) => probe.result = "rejected"

C13_Witness ==
    /\ probe.result = "accepted"
    /\ probe.input = Chars("jon") /\ probe.target = Chars("john")
    /\ probe.minMatchPercent = 60

(***************************************************************************)
(* Claims about the route progress                                         *)
(***************************************************************************)
\* the cached orders that carry the label once the quotes are taken away
Carriers(orders, routeId) ==
    {i \in 1..Len(orders) :
        StripQuotes(orders[i].deliveryAssociate) = StripQuotes(routeId)}

Times(list, x) == Cardinality({i \in 1..Len(list) : list[i] = x})

\* what getRouteProgress reports apart from the percentage
RouteListing(orders, routeId, p) ==
    LET on == Carriers(orders, routeId)
        total == Cardinality(on)
        delivered == Cardinality({i \in on : orders[i].orderStatus = "DELIVERED"})
        key(stop) == IF stop.seq = NoSeq THEN 0 ELSE stop.seq
    IN  /\ ~p.isNull
        /\ p.totalStops = total
        /\ p.completedStops = delivered
        /\ p.pendingStops = total - delivered
        /\ Len(p.orders) = total
        /\ \A i \in on : Times(p.orders, StopOf(orders[i]))
                          = Cardinality({j \in on : StopOf(orders[j]) = StopOf(orders[i])})
        /\ \A i, j \in 1..Len(p.orders) : i < j => key(p.orders[i]) <= key(p.orders[j])
        /\ (orders = ExampleRoute /\ StripQuotes(routeId) = Chars("giga-north")) =>
             /\ p.completedStops = 3
             /\ p.totalStops = 5
             /\ p.progressPercent = 60
             /\ p.currentStopSeq = 4

\* the label names a route that some cached order is on
RouteAsked ==
    /\ probe.asked
    /\ StripQuotes(probe.routeId) # Empty
    /\ Carriers(probe.orders, probe.routeId) # {}

\* C14 as stated: for a label that names a route, the progress counts the
\* cached orders carrying the label after quote stripping as totalStops,
\* those with status DELIVERED as completedStops, the difference as
\* pendingStops, lists those orders by ascending delivery sequence (a missing
\* one counting as 0), and progressPercent is 100 * completedStops /
\* totalStops rounded to the nearest integer, a half going up
C14_Original ==
    LET p == probe.progress
        total == p.totalStops
        delivered == p.completedStops
    IN  RouteAsked =>
            /\ RouteListing(probe.orders, probe.routeId, p)
            /\ 200 * delivered - total < 2 * total * p.progressPercent
            /\ 2 * total * p.progressPercent <= 200 * delivered + total

\* C14 amended: the counts and the listing are as stated (three delivered
\* stops 1 to 3 and two pending stops 4 and 5 give 3, 5, 60 and current stop
\* 4); progressPercent is the nearest integer of 100 * completedStops /
\* totalStops, a half going up, except when the share delivered is 23/40,
\* 29/200, 57/200 or 113/200, where it is the integer below the half
C14_RouteTotals ==
    LET p == probe.progress
        total == p.totalStops
        delivered == p.completedStops
        nearest == CHOOSE n \in 0..100 :
                      /\ 200 * delivered - total < 2 * total * n
                      /\ 2 * total * n <= 200 * delivered + total
        below == \/ 40 * delivered = 23 * total
                 \/ 200 * delivered \in {29 * total, 57 * total, 113 * total}
    IN  RouteAsked =>
            /\ RouteListing(probe.orders, probe.routeId, p)
            /\ p.progressPercent = IF below THEN nearest - 1 ELSE nearest

C14_Witness ==
    /\ probe.asked
    /\ probe.orders = ExampleRoute
    /\ probe.routeId = Chars("giga-north")
    /\ probe.progress.totalStops = 5
    /\ probe.progress.progressPercent = 60
    /\ probe.progress.currentStopSeq = 4
    /\ [i \in 1..5 |-> probe.progress.orders[i].orderId] = <<101, 102, 103, 104, 105>>

\* the label between a pair of double quotes
Quoted(label) == <<"\"">> \o label \o <<"\"">>

SameRoute(p, q) ==
    /\ p.isNull = q.isNull
    /\ p.totalStops = q.totalStops
    /\ p.completedStops = q.completedStops
    /\ p.currentStopSeq = q.currentStopSeq
    /\ p.orders = q.orders

\* C15: a label asked for bare or between quotes gives the same totalStops,
\* completedStops, currentStopSeq and order list for every cache content, and
\* an order whose stored label differs from the route's only by quotes is
\* among the listed orders
C15_QuotesDoNotMatter ==
    LET bare == StripQuotes(probe.routeId)
    IN  (probe.asked /\ probe.routeId \in {bare, Quoted(bare)}) =>
            /\ SameRoute(probe.progress, getRouteProgress(probe.orders, bare))
            /\ SameRoute(probe.progress, getRouteProgress(probe.orders, Quoted(bare)))
            /\ bare # Empty =>
                 \A i \in 1..Len(probe.orders) :
                    probe.orders[i].deliveryAssociate \in {bare, Quoted(bare)}
                    => Times(probe.progress.orders, StopOf(probe.orders[i])) > 0

C15_Witness ==
    /\ probe.asked
    /\ probe.orders = ExampleRoute
    /\ probe.routeId = Chars("\"giga-north\"")
    /\ probe.progress.totalStops = 5
    /\ \E i \in 1..5 : probe.progress.orders[i].orderId = 101

\* the order has no route assigned
Unassigned(o) == StripQuotes(o.deliveryAssociate) = Empty

KnownStatuses ==
    {"PLACED", "STARTED", "COMPLETED", "OUT_FOR_DELIVERY", "DELIVERED", "CANCELLED"}

\* the numeric fields of the estimates that carry no computed number
PlaceholderFields ==
    LET status == probe.order.orderStatus
        e == probe.estimate
    IN  /\ status \in {"DELIVERED", "CANCELLED"} =>
              e.known /\ e.stopsAway = 0 /\ e.estimatedMinutes = 0
        /\ status \in {"PLACED", "STARTED"} => ~e.known
        /\ status \notin KnownStatuses => ~e.known

OnOrdersRoute ==
    IF RouteOf(probe.order.deliveryAssociate) = Empty THEN {}
    ELSE Carriers(probe.orders, RouteOf(probe.order.deliveryAssociate))

CompletedOnRoute ==
    Cardinality({i \in OnOrdersRoute : probe.orders[i].orderStatus = "DELIVERED"})

\* stopsAway as the policy words it, for a delivery sequence seq
PolicyStopsAway(seq) ==
    IF OnOrdersRoute # {} THEN Max(0, seq - CompletedOnRoute) ELSE seq

\* C18 as stated: for COMPLETED and OUT_FOR_DELIVERY and a delivery sequence
\* of 0 or more, stopsAway is max(0, deliverySeq - completedStops) when the
\* order's route has a progress and deliverySeq itself otherwise, and is
\* never negative
C18_Original ==
    (/\ probe.asked
     /\ probe.order.orderStatus \in {"COMPLETED", "OUT_FOR_DELIVERY"}
     /\ probe.order.deliverySeq >= 0) =>
        /\ probe.estimate.stopsAway = PolicyStopsAway(probe.order.deliverySeq)
        /\ probe.estimate.stopsAway >= 0

\* C18 amended: the same for a delivery sequence of 1 or more; an order whose
\* delivery sequence is 0 or missing is estimated as the order at sequence 1
C18_StopsAway ==
    (probe.asked /\ probe.order.orderStatus \in {"COMPLETED", "OUT_FOR_DELIVERY"}) =>
        /\ probe.estimate.known
        /\ probe.estimate.stopsAway >= 0
        /\ probe.order.deliverySeq >= 1 =>
              probe.estimate.stopsAway = PolicyStopsAway(probe.order.deliverySeq)
        /\ probe.order.deliverySeq \in {NoSeq, 0} =>
              probe.estimate.stopsAway = PolicyStopsAway(1)

C18_Witness ==
    /\ probe.asked
    /\ probe.order.orderStatus = "OUT_FOR_DELIVERY"
    /\ probe.order.deliverySeq = 2
    /\ CompletedOnRoute = 3
    /\ probe.estimate.stopsAway = 0

\* C19: a COMPLETED order is estimated at stopsAway * 12 + 15 minutes; an
\* order OUT_FOR_DELIVERY at max(stopsAway * 12, 5) minutes with the label's
\* upper bound 15 above it, and it gets the message that the driver is about
\* to arrive exactly when stopsAway is 0, with the bounds 5 and 20
C19_Minutes ==
    LET e == probe.estimate
    IN  /\ (probe.asked /\ probe.order.orderStatus = "COMPLETED") =>
              e.estimatedMinutes = e.stopsAway * 12 + 15
        /\ (probe.asked /\ probe.order.orderStatus = "OUT_FOR_DELIVERY") =>
              /\ e.estimatedMinutes = Max(e.stopsAway * 12, 5)
              /\ e.maxTime = e.estimatedMinutes + 15
              /\ e.message = "heading to you now" <=> e.stopsAway = 0
              /\ e.stopsAway = 0 => (e.estimatedMinutes = 5 /\ e.maxTime = 20)

C19_Witness ==
    /\ probe.asked
    /\ probe.order.orderStatus = "OUT_FOR_DELIVERY"
    /\ probe.estimate.stopsAway = 0
    /\ probe.estimate.estimatedMinutes = 5
    /\ probe.estimate.maxTime = 20
    /\ probe.estimate.message = "heading to you now"

(***************************************************************************)
(* Claims about the driver location                                        *)
(***************************************************************************)
\* C20: a driver-location request made with a session ends with the payload
\* or with exactly one of VERIFICATION_REQUIRED, ORDER_NOT_FOUND,
\* NOT_OUT_FOR_DELIVERY and NO_DRIVER, and with the payload only if the
\* order is verified for the session
C20_DriverLocationOutcomes ==
    (last.op \in {"driver", "mdriver"} /\ last.s # NoSid) =>
        /\ last.code \in {"OK", "VERIFICATION_REQUIRED", "ORDER_NOT_FOUND",
                          "NOT_OUT_FOR_DELIVERY", "NO_DRIVER"}
        /\ last.code = "OK" => isVerified(last.s, last.o)

(***************************************************************************)
(* Claims about the outcomes of verification                               *)
(***************************************************************************)
TrackingOps == {"track", "mtrack", "driver", "mdriver"}

\* what a tracking or driver-location request for order o answers to a
\* session that has no history at all
NeverAttemptedAnswer(op, s, o) ==
    LET cs0 == [x \in SessionIds |-> NoSession]
        st0 == [cs |-> cs0, pv |-> [x \in SessionIds |-> NoPending], pr |-> {}]
        gate == CASE op \in {"track", "driver"} -> LegacyGate(cs0, s, o)
                  [] op = "mtrack" -> MobileTrackGate(cs0, s, o)
                  [] op = "mdriver" -> MobileDriverGate(cs0, s, o)
    IN  Gated(st0, gate, op, "orders", o).code

\* C21: a tracking or driver-location request that follows a failed attempt
\* to verify the same order in the same session is not answered as the
\* request of a session that never attempted is
C21_FailedAttemptIsTold ==
    [][(/\ last.op = "verify"
        /\ last.code = "VERIFICATION_FAILED"
        /\ last'.n = last.n + 1
        /\ last'.op \in TrackingOps
        /\ last'.s = last.s
        /\ last'.o = last.o)
       => last'.code # NeverAttemptedAnswer(last'.op, last'.s, last'.o)]_vars

\* a step in which the proof asked of session s is accepted: the pending
\* record is taken away, which only a matching identifier does, and the
\* answer before it told the session that its attempt had failed
MatchingAttemptAfterFailure(s) ==
    /\ last.code = "VERIFICATION_FAILED"
    /\ last.s = s
    /\ pendingVerifications[s].has
    /\ ~pendingVerifications'[s].has

\* C22: there is no lockout: an attempt with a matching identifier that
\* follows a failed attempt makes the order verified for the session, and a
\* failed attempt in the chat leaves the pending record of the session as it
\* was
C22_NoLockout ==
    [][\A s \in SessionIds :
          /\ MatchingAttemptAfterFailure(s) =>
                Has(customerSessions'[s].verifiedOrders, pendingVerifications[s].orderId)
          /\ (FailedAttempt(s) /\ last'.op \in {"chat", "mchat"}
              /\ pendingVerifications[s].has) =>
                pendingVerifications'[s] = pendingVerifications[s]]_vars

(***************************************************************************)
(* Claims about the two-tier lookup                                        *)
(***************************************************************************)
\* the order of the snapshot that the id names, as it was before the call
FirstWithId(orders, orderId) == orders[FindPlace(orders, orderId)]

SameOrder(a, b) ==
    a.customerOrderId = b.customerOrderId /\ a.orderStatus = b.orderStatus

\* C23: the lookup returns the order of today's snapshot whenever that
\* snapshot holds the id, otherwise the order of the wide snapshot, and
\* nothing when neither holds it; the wide snapshot is consulted only when
\* today's lacks the id
C23_TodaysFirst ==
    LET r == probe.result
        inTodays == FindPlace(probe.todays, probe.orderId) # 0
        inWide == FindPlace(probe.orders, probe.orderId) # 0
    IN  probe.asked =>
            /\ inTodays =>
                  r.found /\ SameOrder(r.order, FirstWithId(probe.todays, probe.orderId))
            /\ (~inTodays /\ inWide) =>
                  r.found /\ SameOrder(r.order, FirstWithId(probe.orders, probe.orderId))
            /\ (~inTodays /\ ~inWide) => ~r.found
            /\ r.wide <=> ~inTodays

C23_Witness ==
    /\ probe.asked
    /\ FindPlace(probe.todays, probe.orderId) = 0
    /\ Len(probe.todays) > 0
    /\ FindPlace(probe.orders, probe.orderId) = 2
    /\ probe.result.found
    /\ probe.result.wide
    /\ probe.result.order.orderStatus = "DELIVERED"

\* C28: the lookup changes no field of an order held in a cache snapshot:
\* both snapshots are after the call what they were before it
C28_SnapshotsReadOnly ==
    probe.asked =>
        /\ probe.result.todays = probe.todays
        /\ probe.result.orders = probe.orders

(***************************************************************************)
(* Claims about the cache under concurrent reads                           *)
(***************************************************************************)
\* call r found a snapshot younger than its TTL when it began
FoundFresh(r) == r.seen # NoCache /\ (r.t0 - r.seenAt) < TTL(r.c)

\* every finished read was a hit exactly when it found a snapshot younger
\* than the TTL, a hit returned that snapshot, and every call waiting for
\* upstream found none
ReadsFollowAge ==
    /\ \A e \in reads :
          /\ e.kind = "hit" <=> FreshAtStart(e)
          /\ e.kind = "hit" => e.snap = e.seen
    /\ \A r \in inflight : r.op = "read" => ~FoundFresh(r)

\* a call whose fetch succeeded stores its snapshot and its timestamp
StoredOnSuccess ==
    \A r \in inflight :
        (r.op = "read" /\ r.stage = "ok" /\ r \notin inflight')
            => /\ CacheOf(r.c)' = r.data
               /\ StampOf(r.c)' = r.t0
               /\ Logged(r, "ok", r.data) \in reads'

\* C24: a read fetches from upstream exactly when no snapshot is cached or
\* the snapshot's age is at least the TTL; below the TTL it returns the
\* cached snapshot without a network call; a successful fetch replaces the
\* snapshot and the timestamp
C24_FetchExactlyWhenStale == []ReadsFollowAge /\ [][StoredOnSuccess]_vars

C24_Witness ==
    \E w, e \in reads :
        /\ w.c = e.c
        /\ w.kind = "ok" /\ e.kind = "ok"
        /\ e.seen = w.snap /\ e.seenAt = w.t
        /\ e.t - e.seenAt = TTL(e.c)

\* C25: in every state the snapshot of a collection and its timestamp are
\* those of one and the same fetch, or both are still the initial ones
C25_NoHalfWrittenCache ==
    \A c \in Collections :
        \/ CacheOf(c) = NoCache /\ StampOf(c) = 0
        \/ \E e \in reads :
              e.c = c /\ e.kind = "ok" /\ e.snap = CacheOf(c) /\ e.t = StampOf(c)

C25_Witness ==
    \E c \in Collections :
        /\ CacheOf(c) # NoCache
        /\ \E r \in inflight : r.c = c /\ r.stage = "ok" /\ r.data # CacheOf(c)
        /\ \E e \in reads : e.c = c /\ e.kind = "hit"

\* C26: the stored timestamp of a collection never decreases: a fetch that
\* began earlier never replaces the snapshot stored by one that began later
C26_TimestampNeverDecreases ==
    [][\A c \in Collections : StampOf(c)' >= StampOf(c)]_vars

\* C27: a read that begins while a refresh of its collection is in flight
\* and a snapshot is cached is not suspended on upstream
C27_StaleServedDuringRefresh ==
    [][\A r \in inflight' \ inflight :
          (r.op = "read" /\ r.stage = "waiting")
              => ~(CacheOf(r.c) # NoCache /\ \E q \in inflight : q.c = r.c)]_vars


(***************************************************************************)
(* Claims about the phone check and the e-mail check of the verifier       *)
(***************************************************************************)
\* the phone check as the code applies it to the drawn order and identifier
PhoneAccepts ==
    PhoneMatch(normalizePhone(probe.order.phone),
               normalizePhone(trim(probe.identifier)))

\* the e-mail check as the code applies it to the drawn order and identifier
EmailAccepts ==
    EmailMatch(normalizeEmail(probe.order.email),
               toLowerCase(trim(probe.identifier)))

\* e-mail rule of the claim: the identifier has 3 characters at least and is
\* the lower-cased address, is or contains the local part, or is fuzzy at 70
RuleEmailLocalPart(order, identifier) ==
    LET orderEmail == normalizeEmail(order.email)
        inputLower == toLowerCase(trim(identifier))
        localPart  == beforeAt(orderEmail)
    IN  /\ orderEmail # Empty /\ Len(inputLower) >= 3
        /\ \/ orderEmail = inputLower
           \/ localPart = inputLower
           \/ includes(inputLower, localPart)
           \/ fuzzyMatch(inputLower, localPart, 70)

\* C29: the phone check accepts exactly when the identifier has 4 digits at
\* least and, on the last 10 digits of both, the two are equal, one is a suffix
\* of the other, or the last 4 digits are the same; digits from the interior
\* of the order's number are not accepted
C29_PhoneCheckIsSuffixRule ==
    probe.result # "none" =>
        (PhoneAccepts <=> RulePhone(probe.order, probe.identifier))

\* C30: the e-mail check accepts exactly when the identifier has 3 characters
\* at least and equals the lower-cased address, equals or contains the local
\* part, or fuzzy-matches the local part at 70; a piece of the domain part is
\* not accepted
C30_EmailCheckIsLocalPartRule ==
    probe.result # "none" =>
        (EmailAccepts <=> RuleEmailLocalPart(probe.order, probe.identifier))

(***************************************************************************)
(* Claims about the current stop and the last delivered stop of a route    *)
(***************************************************************************)
\* the places in the drawn cache of the orders on the asked route
AskedStops == {i \in 1..Len(probe.orders) : OnRoute(probe.orders[i], probe.routeId)}

OpenStops == {i \in AskedStops : ~IsDelivered(probe.orders[i])}

DoneStops == AskedStops \ OpenStops

\* C31: in a non-null progress, currentStopSeq is the delivery sequence of
\* the first undelivered order in ascending sequence, and totalStops when all
\* are delivered; lastDeliveredAddress is the address of the delivered order
\* that is highest in the sequence, and null when none is delivered
C31_CurrentAndLastStop ==
    (probe.asked /\ ~probe.progress.isNull) =>
        /\ OpenStops = {} => probe.progress.currentStopSeq = probe.progress.totalStops
        /\ OpenStops # {} =>
              \E i \in OpenStops :
                 /\ \A j \in OpenStops : SeqKey(probe.orders[i]) <= SeqKey(probe.orders[j])
                 /\ probe.progress.currentStopSeq = probe.orders[i].deliverySeq
        /\ DoneStops = {} => probe.progress.lastDeliveredAddress = Empty
        /\ DoneStops # {} =>
              \E i \in DoneStops :
                 /\ \A j \in DoneStops : SeqKey(probe.orders[j]) <= SeqKey(probe.orders[i])
                 /\ probe.progress.lastDeliveredAddress = probe.orders[i].address

\* a route asked for whose cache lists a later delivered stop before an
\* earlier one, with a stop still open
C31_Witness ==
    /\ probe.asked /\ ~probe.progress.isNull
    /\ OpenStops # {}
    /\ \E i, j \in DoneStops : i < j /\ SeqKey(probe.orders[i]) > SeqKey(probe.orders[j])
    /\ probe.progress.lastDeliveredAddress # Empty

(***************************************************************************)
(* Claim about the range of progressPercent                                *)
(***************************************************************************)
\* C39 as stated: in a non-null progress, progressPercent is an integer in
\* 0..100, is 100 only if every order on the route is delivered, and is 0
\* only if none is, on a route of any size
C39_Original ==
    (probe.asked /\ ~probe.progress.isNull) =>
        /\ probe.progress.progressPercent \in 0..100
        /\ probe.progress.progressPercent = 100 => OpenStops = {}
        /\ probe.progress.progressPercent = 0 => DoneStops = {}

\* C39: in a non-null progress, progressPercent is an integer in 0..100; on a
\* route of fewer than 200 stops it is 100 only if every order is delivered
\* and 0 only if none is; it is 100 with 199 of 200 stops delivered and 0
\* with 1 of 201 stops delivered
C39_PercentRange ==
    (probe.asked /\ ~probe.progress.isNull) =>
        /\ probe.progress.progressPercent \in 0..100
        /\ Cardinality(AskedStops) < 200 =>
              /\ probe.progress.progressPercent = 100 => OpenStops = {}
              /\ probe.progress.progressPercent = 0 => DoneStops = {}
        /\ (Cardinality(AskedStops) = 200 /\ Cardinality(DoneStops) = 199)
              => probe.progress.progressPercent = 100
        /\ (Cardinality(AskedStops) = 201 /\ Cardinality(DoneStops) = 1)
              => probe.progress.progressPercent = 0

\* a route of 199 stops with one stop open, reported at 99 percent
C39_Witness ==
    /\ probe.asked /\ ~probe.progress.isNull
    /\ Cardinality(AskedStops) = 199 /\ Cardinality(OpenStops) = 1
    /\ probe.progress.progressPercent = 99

(***************************************************************************)
(* Claims about the pending record and the verified set of a session       *)
(***************************************************************************)
\* C32: in every reachable state, the order a session holds as pending is
\* not a member of the verified set of that session
C32_PendingIsNotVerified ==
    \A s \in SessionIds :
        pendingVerifications[s].has
            => ~Has(customerSessions[s].verifiedOrders, pendingVerifications[s].orderId)

ChatOps == {"chat", "mchat"}

\* the answers of handleVerification, the greeting an empty message gets
\* and the refusal of an expired session
ProofAnswers == {"VERIFIED", "VERIFICATION_FAILED", "FAULT", "GREETING", "SESSION_EXPIRED"}

\* a chat request of session s arrives in this step and is answered at once
AnsweredAtOnce(s) ==
    /\ last'.n = last.n + 1 /\ inflight' = inflight
    /\ last'.op \in ChatOps /\ last'.s = s

\* the chat requests of session s that arrive in this step and are suspended
SuspendedNow(s) ==
    {r \in inflight' : /\ r.op \in ChatOps /\ r.s = s
                       /\ \A q \in inflight : q.id # r.id}

\* while session s has a pending order, a chat message is taken as proof only
ProofOnly(s) ==
    pendingVerifications[s].has =>
        /\ AnsweredAtOnce(s) => last'.code \in ProofAnswers
        /\ \A r \in SuspendedNow(s) : r.pc = "done" /\ r.code = "VERIFIED"

\* the pending record of session s goes or changes only in a step after
\* which its order is verified for s
RemovedByProof(s) ==
    (pendingVerifications[s].has /\ pendingVerifications'[s] # pendingVerifications[s])
        => Has(customerSessions'[s].verifiedOrders, pendingVerifications[s].orderId)

\* C33: while a session has a pending order, every non-empty chat message of
\* the session is evaluated as an identity claim against the pending order
\* and no other handler runs; the pending record is removed only by a
\* successful verification of that pending order
C33_PendingBlocksOtherQueries ==
    [][\A s \in SessionIds : ProofOnly(s) /\ RemovedByProof(s)]_vars

(***************************************************************************)
(* Claim about the separation of callers                                   *)
(***************************************************************************)
\* what isVerified and getPending return to a caller served under key s
VerificationView(s) ==
    [verified |-> {o \in OrderKeys : isVerified(s, o)},
     pending |-> pendingVerifications[s]]

\* POST /api/chat answers a request served under the key that every caller
\* without a session identifier gets
AnonymousChatAnswered ==
    /\ last'.n = last.n + 1
    /\ last'.op = "chat" /\ last'.s = DefaultSession

\* C34: a verification or a pending record made by one caller never changes
\* what isVerified or getPending returns for a different caller, callers
\* that send no session identifier included: no step changes the view of
\* two keys, and a chat request without identifier does not change what
\* the other callers without identifier are answered from
C34_CallersAreIsolated ==
    [][/\ \A s1, s2 \in SessionIds :
             (s1 # s2 /\ VerificationView(s1)' # VerificationView(s1))
                 => VerificationView(s2)' = VerificationView(s2)
       /\ AnonymousChatAnswered
             => VerificationView(DefaultSession)' = VerificationView(DefaultSession)]_vars

(***************************************************************************)
(* Claims about the life of a verification and of an expired token         *)
(***************************************************************************)
\* POST /api/v1/chat has just deleted the expired session s
ExpiredAndDeleted(s) ==
    /\ last'.n = last.n + 1
    /\ last'.op = "mchat" /\ last'.code = "SESSION_EXPIRED" /\ last'.s = s
    /\ customerSessions'[s].kind = "absent"

\* C35: an order that is verified for a session stays verified for it as
\* long as the session record exists; no chat message, failed attempt, later
\* verification or verify call removes it; only the deletion of the expired
\* session by the mobile chat endpoint ends it
C35_VerifiedStays ==
    [][\A s \in SessionIds : \A o \in OrderKeys :
          isVerified(s, o) => (isVerified(s, o)' \/ ExpiredAndDeleted(s))]_vars

\* an order is verified for a session whose latest request was a failed
\* attempt or the verification of another order
C35_Witness ==
    \E s \in SessionIds : \E o \in OrderKeys :
        /\ isVerified(s, o)
        /\ last.n = 2 /\ last.s = s
        /\ \/ last.code = "VERIFICATION_FAILED"
           \/ last.code = "VERIFIED" /\ last.op = "verify" /\ last.o # o

\* C36: a token that POST /api/v1/session handed out and whose session the
\* mobile chat endpoint has rejected as expired, and so deleted, never again
\* becomes a live session; no order is verified or tracked under it
C36_ExpiredTokenStaysDead ==
    [][\A t \in issued :
          customerSessions[t].kind = "absent" => customerSessions'[t].kind = "absent"]_vars

(***************************************************************************)
(* Claim about the gates of the tracking operations                        *)
(***************************************************************************)
GateOps == {"track", "driver", "packing", "mtrack", "mdriver"}

\* a tracking request of a session for an order that is not verified for it
\* arrives in this step and is answered at once
UnverifiedAnswered ==
    /\ last'.n = last.n + 1 /\ inflight' = inflight
    /\ last'.op \in GateOps /\ last'.s \in SessionIds
    /\ ~isVerified(last'.s, last'.o)

\* the tracking requests that arrive in this step and wait for a cache read
GateSuspended ==
    {r \in inflight' : r.op \in GateOps /\ \A q \in inflight : q.id # r.id}

\* C37: for a session in which the order is not verified, the tracking,
\* driver-location and packing-status operations answer verification-required
\* without reading the cache or calling upstream, whatever the order id
C37_GateBeforeData ==
    [][/\ \A r \in GateSuspended : isVerified(r.s, r.o)
       /\ UnverifiedAnswered
             => /\ last'.code = "VERIFICATION_REQUIRED"
                /\ UNCHANGED <<cacheVars, reads>>]_vars

(***************************************************************************)
(* Claim about the thresholds of fuzzyMatch and the final fuzzy pass       *)
(***************************************************************************)
\* the text fuzzyMatch compares: lower case, letters and digits only
FuzzyText(text) == SelectSeq(toLowerCase(text), IsLowerAlnum)

\* matchedChars does not exceed the length of the shorter text
ScoreBounded(input, target) ==
    FuzzyWalk(FuzzyText(input), FuzzyText(target), 0, 0, 0)
        <= Min(Len(FuzzyText(input)), Len(FuzzyText(target)))

\* accepted at a threshold, accepted at every lower one
MonotoneInThreshold(input, target) ==
    \A p, q \in FuzzyPercents :
        (q <= p /\ fuzzyMatch(input, target, p)) => fuzzyMatch(input, target, q)

\* verifyCustomerOwnership with its step 6 taken out
VerifiedBeforeFinalPass(order, identifier) ==
    /\ identifier # Empty
    /\ LET input           == trim(identifier)
           firstName       == normalizeName(order.firstName)
           lastName        == normalizeName(order.lastName)
           inputNormalized == normalizeName(input)
       IN  \/ PhoneMatch(normalizePhone(order.phone), normalizePhone(input))
           \/ EmailMatch(normalizeEmail(order.email), toLowerCase(input))
           \/ NameMatch(firstName, inputNormalized)
           \/ NameMatch(lastName, inputNormalized)
           \/ FullNameMatch(firstName, lastName,
                            trim(firstName \o <<" ">> \o lastName), inputNormalized)

\* C38: fuzzyMatch is monotone in its threshold and its score never exceeds
\* 100; the final fuzzy pass of verifyCustomerOwnership (first and last name
\* at 70) accepts no identifier that the first-name and last-name checks at
\* 60 rejected, and the verdict is the same without it
C38_FinalPassAddsNothing ==
    probe.result # "none" =>
        LET firstName       == normalizeName(probe.order.firstName)
            lastName        == normalizeName(probe.order.lastName)
            inputNormalized == normalizeName(trim(probe.identifier))
        IN  /\ \A name \in {firstName, lastName} :
                  /\ MonotoneInThreshold(inputNormalized, name)
                  /\ ScoreBounded(inputNormalized, name)
            /\ FinalFuzzy(firstName, lastName, inputNormalized)
                  => \/ NameMatch(firstName, inputNormalized)
                     \/ NameMatch(lastName, inputNormalized)
            /\ (probe.result = "accepted")
                  = VerifiedBeforeFinalPass(probe.order, probe.identifier)

\* the final pass would accept a mistyped name that is no part of the name
\* and does not contain it
C38_Witness ==
    /\ probe.result = "accepted"
    /\ LET firstName       == normalizeName(probe.order.firstName)
           lastName        == normalizeName(probe.order.lastName)
           inputNormalized == normalizeName(trim(probe.identifier))
       IN  /\ FinalFuzzy(firstName, lastName, inputNormalized)
           /\ ~NameMatch_NoFuzzy(firstName, inputNormalized)
           /\ ~NameMatch_NoFuzzy(lastName, inputNormalized)

=============================================================================
